---- MODULE Spec2Model ----
(***************************************************************************)
(* Agent Scoring Engine of Proyecto_Grafico: src/src/logic_analytics.py,   *)
(* driven by the batch loop of src/run_pipeline.py.                        *)
(*                                                                         *)
(* Number representation.  The program computes in floating point; the     *)
(* model computes in integers:                                             *)
(*   - money and counts are integers (whole units), |value| <= 2*10^5;    *)
(*   - a metric score is an integer number of thousandths (7.5 is 7500);   *)
(*   - a weight is an integer number of hundredths (0.12 is 12);           *)
(*   - a combined score is an integer number of 10^-5 (8.5 is 850000);     *)
(*   - a credit before rounding is a number of thousandths, the credit    *)
(*     returned a number of cents, a forecast a number of tenths, with     *)
(*     what binary64 rounding adds to it kept apart in ggr_redondeo;       *)
(*   - a class label is the sequence of its characters.                    *)
(* Every threshold comparison of the code (val < 5.5, pct >= 20, ...) is   *)
(* decided exactly, by cross-multiplication.  Values between thresholds    *)
(* are truncated to the unit above; np.log and np.log10 are computed in    *)
(* fixed point to about 2/1000.                                            *)
(***************************************************************************)
EXTENDS Integers, Sequences, FiniteSets, TLC

VARIABLES
    pc,                     \* position in the body of main's loop
    agentes,                \* the batch: one table of records per agent
    agent_idx,              \* position in agentes of the agent being processed
    agent_records,          \* the profile records appended so far
    df_agent,               \* the records of the agent being processed
    total_jugadores_global, \* platform-wide distinct player count
    metricas,               \* global score set of the agent
    df_mensual,             \* monthly aggregate, with per-month scores
    score,                  \* combined score
    categoria,              \* class label
    credito,                \* suggested credit
    detalles,               \* the factors calcular_credito_sugerido returns
    ggr_prediccion,         \* revenue forecast
    ggr_redondeo,           \* rounding error of the revenue forecast
    df_retencion,           \* cohort retention rows of the agent
    df_crecimiento,         \* organic growth rows of the agent
    df_agents,              \* the agent profiles with their rank_global
    port,                   \* run_server: the port of the next bind attempt
    puertos_ocupados,       \* run_server: the ports on which bind fails
    intentados,             \* run_server: the ports passed to TCPServer so far
    record                  \* the agent profile record built by main

vars == <<pc, agentes, agent_idx, agent_records, df_agent, total_jugadores_global,
          metricas, df_mensual, score, categoria, credito, detalles,
          ggr_prediccion, ggr_redondeo, df_retencion, df_crecimiento, df_agents, port,
          puertos_ocupados, intentados, record>>

\* The state of start_server.py, a program of its own.
servidor == <<port, puertos_ocupados, intentados>>

-----------------------------------------------------------------------------
(* Arithmetic helpers.                                                     *)

Max(a, b) == IF a >= b THEN a ELSE b
Min(a, b) == IF a <= b THEN a ELSE b
Abs(a) == IF a < 0 THEN -a ELSE a

RECURSIVE SumSeq(_)
SumSeq(s) == IF s = <<>> THEN 0 ELSE Head(s) + SumSeq(Tail(s))

\* <<quotient, remainder>> of r * k by d, for 0 <= r < d, k >= 0, one decimal
\* digit of k at a time so that no intermediate product overflows.
RECURSIVE QuotRem(_, _, _)
QuotRem(r, k, d) ==
    IF k = 0 THEN <<0, 0>>
    ELSE LET p == QuotRem(r, k \div 10, d)
             t == 10 * p[2] + r * (k % 10)
         IN <<10 * p[1] + t \div d, t % d>>

\* floor(a * k / d) for d > 0, k >= 0: the value of (a / d) * k in units of 1/k.
MulDiv(a, k, d) == (a \div d) * k + QuotRem(a % d, k, d)[1]

RECURSIVE Pow2(_)
Pow2(n) == IF n = 0 THEN 1 ELSE 2 * Pow2(n - 1)

RECURSIVE FloorLog2(_)
FloorLog2(x) == IF x < 2 THEN 0 ELSE 1 + FloorLog2(x \div 2)

\* The k leading fractional bits of log2 of the mantissa m, m / 2^14 in [1, 2).
RECURSIVE Log2Frac(_, _)
Log2Frac(m, k) ==
    IF k = 0 THEN 0
    ELSE LET sq == (m * m) \div 16384
         IN IF sq >= 32768
            THEN Pow2(k - 1) + Log2Frac(sq \div 2, k - 1)
            ELSE Log2Frac(sq, k - 1)

\* log2(x) in units of 1/4096, for an integer x >= 1.
Log2Q12(x) ==
    LET n == FloorLog2(x)
        m == IF n <= 14 THEN x * Pow2(14 - n) ELSE x \div Pow2(n - 14)
    IN n * 4096 + Log2Frac(m, 12)

\* np.log(x) and np.log10(x) in thousandths, for an integer x >= 1.
NpLog(x) == (Log2Q12(x) * 6931 + 20480) \div 40960
NpLog10(x) == (Log2Q12(x) * 3010 + 20480) \div 40960

RECURSIVE SqrtIter(_, _, _)
SqrtIter(x, lo, hi) ==
    IF hi - lo <= 1 THEN lo
    ELSE LET mid == (lo + hi) \div 2
         IN IF mid * mid <= x THEN SqrtIter(x, mid, hi) ELSE SqrtIter(x, lo, mid)

\* floor(sqrt(x)) for 0 <= x < 2^31.
ISqrt(x) == SqrtIter(x, 0, 46341)

\* s with x inserted before the first element greater than x (s ascending).
RECURSIVE Insert(_, _)
Insert(x, s) ==
    IF s = <<>> THEN <<x>>
    ELSE IF x <= Head(s) THEN <<x>> \o s
    ELSE <<Head(s)>> \o Insert(x, Tail(s))

RECURSIVE SortAsc(_)
SortAsc(s) == IF s = <<>> THEN <<>> ELSE Insert(Head(s), SortAsc(Tail(s)))

RECURSIVE MinSeq(_)
MinSeq(s) == IF Len(s) = 1 THEN s[1] ELSE Min(Head(s), MinSeq(Tail(s)))

-----------------------------------------------------------------------------
(* Configuration.                                                          *)

\* PESOS_METRICAS with the weight of volumen raised to 0.16.
PESOS_METRICAS_mut ==
    [rentabilidad |-> 12, volumen |-> 16, fidelidad |-> 15, estabilidad |-> 12,
     crecimiento |-> 10, eficiencia_casino |-> 8, eficiencia_deportes |-> 8,
     eficiencia_conversion |-> 11, tendencia |-> 4, diversificacion |-> 3,
     calidad_jugadores |-> 2]

\* Weights in hundredths.
PESOS_METRICAS ==
    [rentabilidad |-> 12, volumen |-> 15, fidelidad |-> 15, estabilidad |-> 12,
     crecimiento |-> 10, eficiencia_casino |-> 8, eficiencia_deportes |-> 8,
     eficiencia_conversion |-> 11, tendencia |-> 4, diversificacion |-> 3,
     calidad_jugadores |-> 2]

-----------------------------------------------------------------------------
(* Statistical helpers of logic_analytics.py.                              *)

\* np.percentile(historial, 25), linear interpolation, in quarters of a unit.
calcular_percentil_25(historial) ==
    IF Len(historial) = 0 THEN 0
    ELSE LET s == SortAsc(historial)
             k == (Len(s) - 1) \div 4
             r == (Len(s) - 1) % 4
         IN IF r = 0 THEN 4 * s[k + 1]
            ELSE 4 * s[k + 1] + r * (s[k + 2] - s[k + 1])

\* np.median(historial) in halves of a unit, historial not empty.
NpMedian(historial) ==
    LET s == SortAsc(historial)
        n == Len(s)
    IN IF n % 2 = 1 THEN 2 * s[(n + 1) \div 2]
       ELSE s[n \div 2] + s[n \div 2 + 1]

\* Sample standard deviation over |mean|, in thousandths; historial holds
\* thousandths (the logarithms), all >= 0.
calcular_coeficiente_variacion(historial) ==
    IF Len(historial) < 2 THEN 0
    ELSE LET n == Len(historial)
             suma == SumSeq(historial)
             media == suma \div n
             sq == SumSeq([i \in 1..n |-> (historial[i] - media) * (historial[i] - media)])
             desv_std == ISqrt(sq \div (n - 1))
         IN IF suma = 0 THEN 0
            ELSE MulDiv(desv_std * n, 1000, Abs(suma))

\* Volatility factor in hundredths; cv_log in thousandths.
calcular_factor_volatilidad(cv_log) ==
    IF cv_log < 200 THEN 100
    ELSE IF cv_log < 400 THEN 85
    ELSE IF cv_log < 600 THEN 70
    ELSE IF cv_log < 800 THEN 55
    ELSE 40

\* OLS slope over t = 1..n as the pair <<numerador, denominador>>;
\* <<0, 1>> stands for the early returns of 0.
calcular_tendencia_lineal(historial) ==
    IF Len(historial) < 2 THEN <<0, 1>>
    ELSE LET n == Len(historial)
             sum_t == SumSeq([t \in 1..n |-> t])
             sum_tt == SumSeq([t \in 1..n |-> t * t])
             sum_th == SumSeq([t \in 1..n |-> t * historial[t]])
             numerador == n * sum_th - sum_t * SumSeq(historial)
             denominador == n * sum_tt - sum_t * sum_t
         IN IF denominador = 0 THEN <<0, 1>> ELSE <<numerador, denominador>>

\* Trend factor in hundredths; tendencia is a slope <<num, den>>, den > 0.
calcular_factor_tendencia(tendencia) ==
    IF tendencia[1] > 5000 * tendencia[2] THEN 115
    ELSE IF tendencia[1] > 0 THEN 105
    ELSE IF tendencia[1] >= -5000 * tendencia[2] THEN 95
    ELSE 80

-----------------------------------------------------------------------------
(* calcular_metricas_agente: monthly aggregation.                          *)
(* A record's creado is [ok, mes, dia]: ok is FALSE for a timestamp that    *)
(* pd.to_datetime(errors='coerce') turns into NaT; mes numbers the calendar *)
(* months in chronological order.                                          *)

RECURSIVE SetToSeqAsc(_)
SetToSeqAsc(S) ==
    IF S = {} THEN <<>>
    ELSE LET m == CHOOSE x \in S : \A y \in S : x <= y
         IN <<m>> \o SetToSeqAsc(S \ {m})

Column(rows, f) == [i \in 1..Len(rows) |-> rows[i][f]]

\* A missing value (NaN) of a numeric column is written 0 in jugador_id,
\* whose real values are positive.
IsNa(x) == x = 0

\* nunique() counts the distinct values that are not NaN.
NUnique(rows, f) == Cardinality({rows[i][f] : i \in 1..Len(rows)} \ {x \in {rows[i][f] : i \in 1..Len(rows)} : IsNa(x)})

\* The records kept as they are, without the dropna.
DropNa_ausente(df_agente) == df_agente

\* df_agente.dropna(subset=['creado'])
DropNa(df_agente) == SelectSeq(df_agente, LAMBDA r : r.creado.ok)

\* dt.to_period('M')
ToPeriodM(creado) == creado.mes

\* groupby('mes').agg({...}).reset_index(): one row per month present,
\* ascending by month.
GroupByMes(df) ==
    LET meses == SetToSeqAsc({ToPeriodM(df[i].creado) : i \in 1..Len(df)})
        Fila(m) ==
            LET g == SelectSeq(df, LAMBDA r : ToPeriodM(r.creado) = m)
            IN [mes |-> m,
                calculo_ngr |-> SumSeq(Column(g, "calculo_ngr")),
                calculo_comision |-> SumSeq(Column(g, "calculo_comision")),
                num_depositos |-> SumSeq(Column(g, "num_depositos")),
                num_retiros |-> SumSeq(Column(g, "num_retiros")),
                total_depositos |-> SumSeq(Column(g, "total_depositos")),
                total_retiros |-> SumSeq(Column(g, "total_retiros")),
                apuestas_deportivas_ggr |-> SumSeq(Column(g, "apuestas_deportivas_ggr")),
                casino_ggr |-> SumSeq(Column(g, "casino_ggr")),
                active_players |-> NUnique(g, "jugador_id")]
    IN [i \in 1..Len(meses) |-> Fila(meses[i])]

-----------------------------------------------------------------------------
(* calcular_metricas_agente: the eleven global metrics, in thousandths.    *)
(* A metric the code leaves unassigned keeps the 0 of the initial dict.    *)

\* 1. Rentabilidad
Rentabilidad(total_ngr, total_depositos) ==
    IF total_depositos > 0
    THEN LET score_pct ==
                 IF total_ngr * 100 >= 8 * total_depositos THEN 7000
                 ELSE IF total_ngr * 100 >= 6 * total_depositos THEN 5500
                 ELSE IF total_ngr * 100 >= 4 * total_depositos THEN 4000
                 ELSE Max(0, Min(7000, MulDiv(total_ngr, 175000, total_depositos)))
             score_volumen ==
                 IF total_ngr > 0
                 THEN Min(3000, (NpLog10(total_ngr + 1) * 75) \div 100)
                 ELSE 0
         IN score_pct + score_volumen
    ELSE 0

\* 2. Volumen
Volumen(total_transacciones) ==
    IF total_transacciones > 0
    THEN Min(10000, Max(0, (NpLog10(total_transacciones + 1) * 23) \div 10))
    ELSE 0

\* Fidelidad without the min(10, ...) cap.
Fidelidad_sin_tope(jugadores_agente, total_global) ==
    IF total_global > 0
    THEN MulDiv(jugadores_agente, 250000, total_global)
    ELSE 0

\* 3. Fidelidad
Fidelidad(jugadores_agente, total_global) ==
    IF total_global > 0
    THEN Min(10000, MulDiv(jugadores_agente, 250000, total_global))
    ELSE 0

\* ef = 1 - CV of the log-normalised series, in thousandths.
EfEstabilidad(comisiones) ==
    LET min_c == MinSeq(comisiones)
        c_log == [i \in 1..Len(comisiones) |->
                     NpLog(comisiones[i] + Abs(min_c) + 1)]
    IN 1000 - calcular_coeficiente_variacion(c_log)

\* BandaEstabilidad with the third band written 4 + ((ef-0.4)/0.2)*4.
BandaEstabilidad_pendiente(ef) ==
    IF ef >= 800 THEN 8000 + ((ef - 800) * 2000) \div 200
    ELSE IF ef >= 600 THEN 6000 + ((ef - 600) * 2000) \div 200
    ELSE IF ef >= 400 THEN 4000 + ((ef - 400) * 4000) \div 200
    ELSE IF ef >= 0 THEN (ef * 4000) \div 400
    ELSE 0

\* The four bands of the if/elif chain; a negative ef leaves the initial 0.
BandaEstabilidad(ef) ==
    IF ef >= 800 THEN 8000 + ((ef - 800) * 2000) \div 200
    ELSE IF ef >= 600 THEN 6000 + ((ef - 600) * 2000) \div 200
    ELSE IF ef >= 400 THEN 4000 + ((ef - 400) * 2000) \div 200
    ELSE IF ef >= 0 THEN (ef * 4000) \div 400
    ELSE 0

\* 4. Estabilidad; comisiones is the monthly calculo_ngr column.
Estabilidad(comisiones) ==
    IF Len(comisiones) > 1
    THEN BandaEstabilidad(EfEstabilidad(comisiones))
    ELSE 5000

\* 5. Crecimiento (last two months); num_depositos is the monthly column.
Crecimiento(num_depositos) ==
    IF Len(num_depositos) >= 2
    THEN LET dep_act == num_depositos[Len(num_depositos)]
             dep_ant == num_depositos[Len(num_depositos) - 1]
             dif == (dep_act - dep_ant) * 100
         IN IF dep_ant > 0
            THEN IF dif >= 20 * dep_ant THEN 10000
                 ELSE IF dif >= 10 * dep_ant THEN 8000
                 ELSE IF dif >= 5 * dep_ant THEN 6500
                 ELSE IF dif >= 0 THEN 5000
                 ELSE IF dif >= -10 * dep_ant THEN 3500
                 ELSE IF dif >= -20 * dep_ant THEN 2000
                 ELSE 1000
            ELSE IF dep_act > 0 THEN 10000
            ELSE 0
    ELSE 5000

\* 6. Eficiencia Casino; val = total_num_depositos / total_ggr_casino * 100.
EficienciaCasino(total_num_depositos, total_ggr_casino) ==
    IF total_ggr_casino > 0
    THEN IF total_num_depositos * 1000 < 55 * total_ggr_casino THEN 10000
         ELSE IF total_num_depositos * 100 < 10 * total_ggr_casino THEN 7500
         ELSE IF total_num_depositos * 100 < 14 * total_ggr_casino THEN 5000
         ELSE IF total_num_depositos * 100 < 20 * total_ggr_casino THEN 3000
         ELSE IF total_num_depositos * 100 < 33 * total_ggr_casino THEN 2000
         ELSE Max(1000, 10000 - MulDiv(total_num_depositos, 10000, total_ggr_casino))
    ELSE 0

\* 7. Eficiencia Deportes
EficienciaDeportes(total_num_depositos, total_ggr_deportes) ==
    IF total_ggr_deportes > 0
    THEN IF total_num_depositos * 1000 < 55 * total_ggr_deportes THEN 10000
         ELSE IF total_num_depositos * 100 < 10 * total_ggr_deportes THEN 7500
         ELSE IF total_num_depositos * 100 < 14 * total_ggr_deportes THEN 5000
         ELSE IF total_num_depositos * 100 < 20 * total_ggr_deportes THEN 3000
         ELSE IF total_num_depositos * 100 < 33 * total_ggr_deportes THEN 2000
         ELSE Max(1000, 10000 - MulDiv(total_num_depositos, 10000, total_ggr_deportes))
    ELSE 0

\* 8. Conversion; val = total_ggr / total_depositos * 100.
Conversion(total_ggr, total_depositos) ==
    IF total_depositos > 0
    THEN IF total_ggr * 100 >= 15 * total_depositos THEN 10000
         ELSE IF total_ggr * 100 >= 10 * total_depositos THEN 7500
         ELSE IF total_ggr * 100 >= 7 * total_depositos THEN 5000
         ELSE IF total_ggr * 100 >= 5 * total_depositos THEN 3000
         ELSE Max(0, MulDiv(total_ggr, 200000, total_depositos))
    ELSE 0

\* Tendencia fitting the line from two months on (len(comisiones) >= 2).
Tendencia_dos_meses(comisiones) ==
    IF Len(comisiones) >= 2
    THEN LET t == calcular_tendencia_lineal(comisiones)
         IN IF t[1] > 1000 * t[2] THEN 8000
            ELSE IF t[1] > 0 THEN 6000
            ELSE IF t[1] > -1000 * t[2] THEN 4000
            ELSE 2000
    ELSE 5000

\* 9. Tendencia
Tendencia(comisiones) ==
    IF Len(comisiones) >= 3
    THEN LET t == calcular_tendencia_lineal(comisiones)
         IN IF t[1] > 1000 * t[2] THEN 8000
            ELSE IF t[1] > 0 THEN 6000
            ELSE IF t[1] > -1000 * t[2] THEN 4000
            ELSE 2000
    ELSE 5000

\* 10. Diversificacion; shares in 1/10000, hhi in 1/10^8.
Diversificacion(total_apuestas, total_apuestas_casino, total_apuestas_deportes) ==
    IF total_apuestas > 0
    THEN LET sc == MulDiv(total_apuestas_casino, 10000, total_apuestas)
             sd == MulDiv(total_apuestas_deportes, 10000, total_apuestas)
             hhi == sc * sc + sd * sd
         IN (100000000 - hhi) \div 10000
    ELSE 0

\* 11. Calidad Jugadores
CalidadJugadores(total_apuestas, jugadores_agente) ==
    IF jugadores_agente > 0
    THEN IF total_apuestas > 10000 * jugadores_agente THEN 8000
         ELSE IF total_apuestas > 5000 * jugadores_agente THEN 6000
         ELSE IF total_apuestas > 1000 * jugadores_agente THEN 4000
         ELSE 2000
    ELSE 0

\* The global score set, from the raw records and the monthly aggregate.
\* margen_estimado = 0.05: a division by it is a multiplication by 20.
MetricasGlobales(df_agente, mensual, total_global) ==
    LET total_ngr == SumSeq(Column(mensual, "calculo_ngr"))
        total_depositos == SumSeq(Column(mensual, "total_depositos"))
        total_num_depositos == SumSeq(Column(mensual, "num_depositos"))
        total_ggr_deportes == SumSeq(Column(mensual, "apuestas_deportivas_ggr"))
        total_ggr_casino == SumSeq(Column(mensual, "casino_ggr"))
        total_ggr == total_ggr_deportes + total_ggr_casino
        total_apuestas == (total_ggr_deportes + total_ggr_casino) * 20
        total_apuestas_deportes == total_ggr_deportes * 20
        total_apuestas_casino == total_ggr_casino * 20
        total_transacciones == total_num_depositos + SumSeq(Column(mensual, "num_retiros"))
        jugadores_agente == NUnique(df_agente, "jugador_id")
        comisiones == Column(mensual, "calculo_ngr")
    IN [rentabilidad |-> Rentabilidad(total_ngr, total_depositos),
        volumen |-> Volumen(total_transacciones),
        fidelidad |-> Fidelidad(jugadores_agente, total_global),
        estabilidad |-> Estabilidad(comisiones),
        crecimiento |-> Crecimiento(Column(mensual, "num_depositos")),
        eficiencia_casino |-> EficienciaCasino(total_num_depositos, total_ggr_casino),
        eficiencia_deportes |-> EficienciaDeportes(total_num_depositos, total_ggr_deportes),
        eficiencia_conversion |-> Conversion(total_ggr, total_depositos),
        tendencia |-> Tendencia(comisiones),
        diversificacion |-> Diversificacion(total_apuestas, total_apuestas_casino,
                                            total_apuestas_deportes),
        calidad_jugadores |-> CalidadJugadores(total_apuestas, jugadores_agente)]

-----------------------------------------------------------------------------
(* Scoring and classification.                                             *)

RECURSIVE SumOver(_, _)
SumOver(f, S) ==
    IF S = {} THEN 0
    ELSE LET k == CHOOSE x \in S : TRUE
         IN f[k] + SumOver(f, S \ {k})

\* dict.get(k, 0)
Get(d, k) == IF k \in DOMAIN d THEN d[k] ELSE 0

\* calcular_score_total weighting volumen by 0.16.
calcular_score_total_volumen_16(m) ==
    SumOver([k \in DOMAIN m |->
                m[k] * (IF k = "volumen" THEN 16 ELSE Get(PESOS_METRICAS, k))], DOMAIN m)

\* calcular_score_total leaving the last key, calidad_jugadores, out of the sum.
calcular_score_total_mut(m) ==
    SumOver([k \in DOMAIN m \ {"calidad_jugadores"} |-> m[k] * Get(PESOS_METRICAS, k)],
            DOMAIN m \ {"calidad_jugadores"})

\* sum(v * PESOS_METRICAS.get(k, 0) for k, v in metricas.items())
calcular_score_total(m) ==
    SumOver([k \in DOMAIN m |-> m[k] * Get(PESOS_METRICAS, k)], DOMAIN m)

\* categorizar_agente with an exclusive top threshold (score > 8.5).
categorizar_agente_mut(s) ==
    IF s > 850000 THEN <<<<"A", "+", "+", "+">>, "Excelencia excepcional">>
    ELSE IF s >= 800000 THEN <<<<"A", "+", "+">>, "Excelencia alta">>
    ELSE IF s >= 750000 THEN <<<<"A", "+">>, "Excelencia">>
    ELSE IF s >= 650000 THEN <<<<"B", "+", "+", "+">>, "Consolidado superior">>
    ELSE IF s >= 550000 THEN <<<<"B", "+", "+">>, "Consolidado alto">>
    ELSE IF s >= 450000 THEN <<<<"B", "+">>, "Consolidado">>
    ELSE IF s >= 350000 THEN <<<<"C", "+", "+", "+">>, "En desarrollo avanzado">>
    ELSE IF s >= 250000 THEN <<<<"C", "+", "+">>, "En desarrollo medio">>
    ELSE IF s >= 150000 THEN <<<<"C", "+">>, "Principiante">>
    ELSE <<<<"C">>, "Critico">>

\* The pair (label, description); score in units of 10^-5.
categorizar_agente(s) ==
    IF s >= 850000 THEN <<<<"A", "+", "+", "+">>, "Excelencia excepcional">>
    ELSE IF s >= 800000 THEN <<<<"A", "+", "+">>, "Excelencia alta">>
    ELSE IF s >= 750000 THEN <<<<"A", "+">>, "Excelencia">>
    ELSE IF s >= 650000 THEN <<<<"B", "+", "+", "+">>, "Consolidado superior">>
    ELSE IF s >= 550000 THEN <<<<"B", "+", "+">>, "Consolidado alto">>
    ELSE IF s >= 450000 THEN <<<<"B", "+">>, "Consolidado">>
    ELSE IF s >= 350000 THEN <<<<"C", "+", "+", "+">>, "En desarrollo avanzado">>
    ELSE IF s >= 250000 THEN <<<<"C", "+", "+">>, "En desarrollo medio">>
    ELSE IF s >= 150000 THEN <<<<"C", "+">>, "Principiante">>
    ELSE <<<<"C">>, "Critico">>

\* ch in cat, for a one-character string ch.
StrContains(cat, ch) == \E i \in DOMAIN cat : cat[i] = ch

\* RiskSafe looking for 'A' only.
RiskSafe_mut(cat) == IF StrContains(cat, "A") THEN 1 ELSE 0

\* 1 if 'A' in cat or 'B' in cat else 0
RiskSafe(cat) == IF StrContains(cat, "A") \/ StrContains(cat, "B") THEN 1 ELSE 0

\* aggregate_by_agent_total:
\* 1 if str(x).startswith('A') or str(x).startswith('B') else 0
RiskSafeStartswith(x) == IF Len(x) > 0 /\ (x[1] = "A" \/ x[1] = "B") THEN 1 ELSE 0

-----------------------------------------------------------------------------
(* calcular_metricas_agente: the per-month metrics (the loop over          *)
(* df_mensual.iterrows()), in thousandths.                                 *)

\* 1. Rentabilidad
RentabilidadMes(ngr, deps) ==
    IF deps > 0
    THEN LET s_pct ==
                 IF ngr * 100 >= 8 * deps THEN 7000
                 ELSE IF ngr * 100 >= 6 * deps THEN 5500
                 ELSE IF ngr * 100 >= 4 * deps THEN 4000
                 ELSE Max(0, Min(7000, MulDiv(ngr, 175000, deps)))
             s_vol == IF ngr > 0 THEN Min(3000, (NpLog10(ngr + 1) * 75) \div 100) ELSE 0
         IN s_pct + s_vol
    ELSE 0

\* 2. Volumen
VolumenMes(num_deps, num_rets) ==
    LET txs == num_deps + num_rets
    IN IF txs > 0 THEN Min(10000, Max(0, (NpLog10(txs + 1) * 23) \div 10)) ELSE 0

\* 3. Fidelidad
FidelidadMes(players, total_global) ==
    IF total_global > 0
    THEN Min(10000, MulDiv(players, 250000, total_global))
    ELSE 0

\* 5. Crecimiento against the previous row; i is the 1-based row position.
CrecimientoMes(mensual, i) ==
    IF i > 1
    THEN LET num_deps == mensual[i].num_depositos
             prev_deps == mensual[i - 1].num_depositos
             dif == (num_deps - prev_deps) * 100
         IN IF prev_deps > 0
            THEN IF dif >= 20 * prev_deps THEN 10000
                 ELSE IF dif >= 10 * prev_deps THEN 8000
                 ELSE IF dif >= 5 * prev_deps THEN 6500
                 ELSE IF dif >= 0 THEN 5000
                 ELSE IF dif >= -10 * prev_deps THEN 3500
                 ELSE IF dif >= -20 * prev_deps THEN 2000
                 ELSE 1000
            ELSE IF num_deps > 0 THEN 10000
            ELSE 5000
    ELSE 5000

\* 6. Eficiencia Casino; val = num_deps / ggr_c * 100.
EficienciaCasinoMes(num_deps, ggr_c) ==
    IF ggr_c > 0
    THEN IF num_deps * 1000 > 55 * ggr_c THEN 10000
         ELSE IF num_deps * 100 > 10 * ggr_c THEN 7500
         ELSE IF num_deps * 100 > 14 * ggr_c THEN 5000
         ELSE IF num_deps * 100 > 20 * ggr_c THEN 3000
         ELSE IF num_deps * 100 > 33 * ggr_c THEN 2000
         ELSE Max(1000, 10000 - MulDiv(num_deps, 10000, ggr_c))
    ELSE 0

\* 7. Eficiencia Deportes
EficienciaDeportesMes(num_deps, ggr_d) ==
    IF ggr_d > 0
    THEN IF num_deps * 1000 > 55 * ggr_d THEN 10000
         ELSE IF num_deps * 100 > 10 * ggr_d THEN 7500
         ELSE IF num_deps * 100 > 14 * ggr_d THEN 5000
         ELSE IF num_deps * 100 > 20 * ggr_d THEN 3000
         ELSE IF num_deps * 100 > 33 * ggr_d THEN 2000
         ELSE Max(1000, 10000 - MulDiv(num_deps, 10000, ggr_d))
    ELSE 0

\* 8. Conversion
ConversionMes(ggr_total, deps) ==
    IF deps > 0
    THEN IF ggr_total * 100 >= 15 * deps THEN 10000
         ELSE IF ggr_total * 100 >= 10 * deps THEN 7500
         ELSE IF ggr_total * 100 >= 7 * deps THEN 5000
         ELSE IF ggr_total * 100 >= 5 * deps THEN 3000
         ELSE Max(0, MulDiv(ggr_total, 200000, deps))
    ELSE 0

\* 10. Diversificacion; bets_c = ggr_c / 0.05, bets_d = ggr_d / 0.05.
DiversificacionMes(ggr_c, ggr_d) ==
    LET bets_c == ggr_c * 20
        bets_d == ggr_d * 20
        total_bets == bets_c + bets_d
    IN IF total_bets > 0
       THEN LET sc == MulDiv(bets_c, 10000, total_bets)
                sd == MulDiv(bets_d, 10000, total_bets)
                hhi == sc * sc + sd * sd
            IN (100000000 - hhi) \div 10000
       ELSE 0

\* 11. Calidad
CalidadMes(ggr_c, ggr_d, players) ==
    LET total_bets == ggr_c * 20 + ggr_d * 20
    IN IF players > 0
       THEN IF total_bets > 10000 * players THEN 8000
            ELSE IF total_bets > 5000 * players THEN 6000
            ELSE IF total_bets > 1000 * players THEN 4000
            ELSE 2000
       ELSE 0

\* m_score of row i of the monthly aggregate.
MScore(mensual, i, total_global) ==
    LET row == mensual[i]
    IN [rentabilidad |-> RentabilidadMes(row.calculo_ngr, row.total_depositos),
        volumen |-> VolumenMes(row.num_depositos, row.num_retiros),
        fidelidad |-> FidelidadMes(row.active_players, total_global),
        estabilidad |-> 5000,
        crecimiento |-> CrecimientoMes(mensual, i),
        eficiencia_casino |-> EficienciaCasinoMes(row.num_depositos, row.casino_ggr),
        eficiencia_deportes |->
            EficienciaDeportesMes(row.num_depositos, row.apuestas_deportivas_ggr),
        eficiencia_conversion |->
            ConversionMes(row.casino_ggr + row.apuestas_deportivas_ggr, row.total_depositos),
        tendencia |-> 5000,
        diversificacion |-> DiversificacionMes(row.casino_ggr, row.apuestas_deportivas_ggr),
        calidad_jugadores |->
            CalidadMes(row.casino_ggr, row.apuestas_deportivas_ggr, row.active_players)]

\* total_s: for k, weight in PESOS_METRICAS.items(): total_s += m_score.get(k, 0) * weight
ScoreMensual(m_score) ==
    SumOver([k \in DOMAIN PESOS_METRICAS |-> Get(m_score, k) * PESOS_METRICAS[k]],
            DOMAIN PESOS_METRICAS)

\* Row i with score_global, the eleven metric columns, Clase and Risk_Safe.
FilaConScores(mensual, i, total_global) ==
    LET m_score == MScore(mensual, i, total_global)
        total_s == ScoreMensual(m_score)
        cat == categorizar_agente(total_s)[1]
    IN mensual[i] @@ [k \in DOMAIN PESOS_METRICAS |-> Get(m_score, k)]
                  @@ [score_global |-> total_s, Clase |-> cat, Risk_Safe |-> RiskSafe(cat)]

\* The pair (metricas, df_mensual); an agent without a parseable record gets
\* the all-zero score set and an empty frame.
calcular_metricas_agente(df_agente, total_global) ==
    LET df == DropNa(df_agente)
    IN IF Len(df) = 0
       THEN <<[k \in DOMAIN PESOS_METRICAS |-> 0], <<>>>>
       ELSE LET mensual == GroupByMes(df)
            IN <<MetricasGlobales(df, mensual, total_global),
                 [i \in 1..Len(mensual) |-> FilaConScores(mensual, i, total_global)]>>

-----------------------------------------------------------------------------
(* Credit and forecast.                                                    *)

\* round(x, 2) of a value in thousandths, in cents (half to even).
Round2(x) ==
    LET q == x \div 10
        r == x % 10
    IN IF r < 5 THEN q
       ELSE IF r > 5 THEN q + 1
       ELSE IF q % 2 = 0 THEN q ELSE q + 1

\* ngr[ngr >= 0]: months with zero NGR kept.
Positivos_con_cero(ngr) == SelectSeq(ngr, LAMBDA v : v >= 0)

\* ngr[ngr > 0]
Positivos(ngr) == SelectSeq(ngr, LAMBDA v : v > 0)

\* Turnover factor f_vol in hundredths.
FactorVolumen(total_com) ==
    IF total_com >= 50000 THEN 150
    ELSE IF total_com >= 30000 THEN 130
    ELSE IF total_com >= 15000 THEN 115
    ELSE IF total_com >= 5000 THEN 100
    ELSE 85

\* CreditoLimitado without the floor-of-trust rule (p25 < 100 -> 0).
CreditoLimitado_sin_piso(validos, p25, f_score, f_volatilidad, f_tendencia, f_vol) ==
    LET c1 == MulDiv(f_score, p25 * 250, 100000)
        c2 == MulDiv(c1, f_volatilidad, 100)
        c3 == MulDiv(c2, f_tendencia, 100)
        producto == MulDiv(c3, f_vol, 100)
        limitado == Min(producto, NpMedian(validos) * 15 * f_vol)
    IN IF Len(validos) < 3 THEN limitado \div 2 ELSE limitado

\* CreditoLimitado with the thin-history halving applied before the cap.
CreditoLimitado_mitad_antes(validos, p25, f_score, f_volatilidad, f_tendencia, f_vol) ==
    LET c1 == MulDiv(f_score, p25 * 250, 100000)
        c2 == MulDiv(c1, f_volatilidad, 100)
        c3 == MulDiv(c2, f_tendencia, 100)
        producto == MulDiv(c3, f_vol, 100)
        mitad == IF Len(validos) < 3 THEN producto \div 2 ELSE producto
    IN IF p25 < 400 THEN 0 ELSE Min(mitad, NpMedian(validos) * 15 * f_vol)

\* credito after the limits and the thin-history penalty, in thousandths;
\* p25 in quarters, f_score in 10^-5, the other factors in hundredths.
CreditoLimitado(validos, p25, f_score, f_volatilidad, f_tendencia, f_vol) ==
    LET c1 == MulDiv(f_score, p25 * 250, 100000)
        c2 == MulDiv(c1, f_volatilidad, 100)
        c3 == MulDiv(c2, f_tendencia, 100)
        producto == MulDiv(c3, f_vol, 100)
        mediana == NpMedian(validos)
        limitado == IF p25 < 400 THEN 0
                    ELSE Min(producto, mediana * 15 * f_vol)
    IN IF Len(validos) < 3 THEN limitado \div 2 ELSE limitado

\* FScore without the halving of score + estabilidad.
FScore_sin_promedio(s, m) == 50000 + (s + Get(m, "estabilidad") * 100) \div 20

\* f_score = 0.5 + 0.05 * ((score + metricas.get('estabilidad', 0))/2), in
\* units of 10^-5; s is the combined score.
FScore(s, m) == 50000 + (s + Get(m, "estabilidad") * 100) \div 40

\* The pair (credito in cents, detalles); s is the combined score.
calcular_credito_sugerido(mensual, s, m) ==
    IF Len(mensual) = 0
    THEN <<0, [credito |-> 0, razon |-> "Insuficiente data"]>>
    ELSE LET validos == Positivos(Column(mensual, "calculo_ngr"))
         IN IF Len(validos) = 0
            THEN <<0, [credito |-> 0, razon |-> "Insuficiente data"]>>
            ELSE LET p25 == calcular_percentil_25(validos)
                     f_score == FScore(s, m)
                     min_v == MinSeq(validos)
                     norm_log == [i \in 1..Len(validos) |->
                                     NpLog(validos[i] + Abs(min_v) + 1)]
                     cv == calcular_coeficiente_variacion(norm_log)
                     f_volatilidad == calcular_factor_volatilidad(cv)
                     tend == calcular_tendencia_lineal(validos)
                     f_tendencia == calcular_factor_tendencia(tend)
                     f_vol == FactorVolumen(SumSeq(validos))
                 IN <<Round2(CreditoLimitado(validos, p25, f_score, f_volatilidad,
                                             f_tendencia, f_vol)),
                      [p25 |-> p25, f_score |-> f_score,
                       f_volatilidad |-> f_volatilidad,
                       f_tendencia |-> f_tendencia, f_volumen |-> f_vol]>>

-----------------------------------------------------------------------------
(* The binary64 arithmetic of predecir_ggr.  A natural number of any size  *)
(* is the sequence of its digits in base 2^15, least significant first,     *)
(* without leading zeros; a double is <<sign, magnitude>>, the magnitude in *)
(* units of 2^-55.                                                         *)

Base == 32768

RECURSIVE Recortar(_)
Recortar(x) ==
    IF Len(x) = 0 \/ x[Len(x)] # 0 THEN x ELSE Recortar(SubSeq(x, 1, Len(x) - 1))

Digito(x, i) == IF i <= Len(x) THEN x[i] ELSE 0

RECURSIVE SumaDesde(_, _, _, _)
SumaDesde(x, y, i, acarreo) ==
    IF i > Len(x) /\ i > Len(y)
    THEN IF acarreo > 0 THEN <<acarreo>> ELSE <<>>
    ELSE LET t == Digito(x, i) + Digito(y, i) + acarreo
         IN <<t % Base>> \o SumaDesde(x, y, i + 1, t \div Base)

SumaNat(x, y) == SumaDesde(x, y, 1, 0)

\* x - y for x >= y.
RECURSIVE RestaDesde(_, _, _, _)
RestaDesde(x, y, i, prestamo) ==
    IF i > Len(x) THEN <<>>
    ELSE LET t == Digito(x, i) - Digito(y, i) - prestamo
         IN <<(t + Base) % Base>> \o RestaDesde(x, y, i + 1, IF t < 0 THEN 1 ELSE 0)

RestaNat(x, y) == Recortar(RestaDesde(x, y, 1, 0))

MenorNat(x, y) ==
    IF Len(x) # Len(y) THEN Len(x) < Len(y)
    ELSE \E i \in 1..Len(x) : x[i] < y[i] /\ \A j \in (i + 1)..Len(x) : x[j] = y[j]

\* x * n for a digit n.
RECURSIVE PorDigitoDesde(_, _, _, _)
PorDigitoDesde(x, n, i, acarreo) ==
    IF i > Len(x)
    THEN IF acarreo > 0 THEN <<acarreo>> ELSE <<>>
    ELSE LET t == x[i] * n + acarreo
         IN <<t % Base>> \o PorDigitoDesde(x, n, i + 1, t \div Base)

\* x * n for a natural number n.
RECURSIVE ProductoNat(_, _)
ProductoNat(x, n) ==
    IF n = 0 \/ x = <<>> THEN <<>>
    ELSE LET alto == ProductoNat(x, n \div Base)
         IN SumaNat(PorDigitoDesde(x, n % Base, 1, 0),
                    IF alto = <<>> THEN <<>> ELSE <<0>> \o alto)

\* 2^k
Pot2Nat(k) == [i \in 1..(k \div 15) |-> 0] \o <<Pow2(k % 15)>>

\* x * 2^k
Desplazar(x, k) ==
    IF x = <<>> THEN <<>>
    ELSE [i \in 1..(k \div 15) |-> 0] \o PorDigitoDesde(x, Pow2(k % 15), 1, 0)

\* The number of binary digits of x.
LongitudBits(x) ==
    IF x = <<>> THEN 0 ELSE 15 * (Len(x) - 1) + FloorLog2(x[Len(x)]) + 1

\* x mod 2^d
RestoPot2(x, d) ==
    Recortar([i \in 1..Min(Len(x), d \div 15 + 1) |->
                 IF i <= d \div 15 THEN x[i] ELSE x[i] % Pow2(d % 15)])

\* Rounding to p significant bits, ties to even.
Redondear(x, p) ==
    IF LongitudBits(x) <= p THEN x
    ELSE LET d == LongitudBits(x) - p
             resto == RestoPot2(x, d)
             mitad == Pot2Nat(d - 1)
             abajo == RestaNat(x, resto)
             impar == RestoPot2(abajo, d + 1) # <<>>
             arriba == MenorNat(mitad, resto) \/ (resto = mitad /\ impar)
         IN IF arriba THEN SumaNat(abajo, Pot2Nat(d)) ELSE abajo

\* Redondear53 with the 24 significant bits of a single-precision float.
Redondear53_float32(x) == Redondear(x, 24)

\* Rounding to the 53 significant bits of a double.
Redondear53(x) == Redondear(x, 53)

\* The exact sum of two signed numbers.
SumaConSigno(a, b) ==
    IF a[1] = b[1] THEN <<a[1], SumaNat(a[2], b[2])>>
    ELSE IF a[2] = b[2] THEN <<1, <<>>>>
    ELSE IF MenorNat(a[2], b[2]) THEN <<b[1], RestaNat(b[2], a[2])>>
    ELSE <<a[1], RestaNat(a[2], b[2])>>

\* a + b of two doubles.
SumaF64(a, b) ==
    LET t == SumaConSigno(a, b)
    IN <<t[1], Redondear53(t[2])>>

\* x * k of the double of an integer x and a positive double of magnitude k.
ProductoF64(x, k) ==
    IF x = 0 THEN <<1, <<>>>>
    ELSE <<IF x < 0 THEN -1 ELSE 1, Redondear53(ProductoNat(k, Abs(x)))>>

\* The significand 0x13333333333333 of the doubles 0.3 and 0.6.
Significando3 == <<13107, 26214, 19660, 153>>

\* The significand 0x1999999999999A of the doubles 0.2 and 0.4.
Significando2 == <<6554, 13107, 26214, 204>>

UnoF64 == Pot2Nat(55)

\* The doubles of the literals 0.5, 0.3, 0.2, 0.6 and 0.4.
Literal05 == Pot2Nat(54)

Literal03 == Desplazar(Significando3, 1)

Literal02 == Significando2

Literal06 == Desplazar(Significando3, 2)

Literal04 == Desplazar(Significando2, 1)

\* The double returned by predecir_ggr.
predecir_ggr_f64(mensual) ==
    IF Len(mensual) = 0 THEN <<1, <<>>>>
    ELSE LET ggr == [i \in 1..Len(mensual) |->
                        mensual[i].apuestas_deportivas_ggr + mensual[i].casino_ggr]
             n == Len(ggr)
         IN IF n >= 3
            THEN SumaF64(SumaF64(ProductoF64(ggr[n], Literal05),
                                 ProductoF64(ggr[n - 1], Literal03)),
                         ProductoF64(ggr[n - 2], Literal02))
            ELSE IF n = 2
            THEN SumaF64(ProductoF64(ggr[n], Literal06), ProductoF64(ggr[n - 1], Literal04))
            ELSE ProductoF64(ggr[n], UnoF64)

\* predecir_ggr reading the first three months (ggr[0], ggr[1], ggr[2])
\* instead of the last three.
predecir_ggr_primeros(mensual) ==
    IF Len(mensual) = 0 THEN 0
    ELSE LET ggr == [i \in 1..Len(mensual) |->
                        mensual[i].apuestas_deportivas_ggr + mensual[i].casino_ggr]
             n == Len(ggr)
         IN IF n >= 3 THEN ggr[1] * 5 + ggr[2] * 3 + ggr[3] * 2
            ELSE IF n = 2 THEN ggr[1] * 6 + ggr[2] * 4
            ELSE ggr[1] * 10

\* Forecast in tenths of a unit.
predecir_ggr(mensual) ==
    IF Len(mensual) = 0 THEN 0
    ELSE LET ggr == [i \in 1..Len(mensual) |->
                        mensual[i].apuestas_deportivas_ggr + mensual[i].casino_ggr]
             n == Len(ggr)
         IN IF n >= 3 THEN ggr[n] * 5 + ggr[n - 1] * 3 + ggr[n - 2] * 2
            ELSE IF n = 2 THEN ggr[n] * 6 + ggr[n - 1] * 4
            ELSE ggr[n] * 10

\* What the double returned by predecir_ggr differs by from the value of its
\* expression in exact arithmetic: the double is
\* (predecir_ggr(mensual) + predecir_ggr_redondeo(mensual) * 2^-55) / 10.
\* A difference of 2^30 or more is given as 2^30.
predecir_ggr_redondeo(mensual) ==
    LET f == predecir_ggr_f64(mensual)
        exacto == predecir_ggr(mensual)
        d == SumaConSigno(<<f[1], ProductoNat(f[2], 10)>>,
                          <<IF exacto < 0 THEN 1 ELSE -1, ProductoNat(UnoF64, Abs(exacto))>>)
    IN d[1] * (IF Len(d[2]) <= 2 THEN Digito(d[2], 1) + Base * Digito(d[2], 2)
               ELSE Base * Base)

\* ggr[-k] on an array of n elements raises IndexError when k > n.
IndexError(n, k) == k > n

\* predecir_ggr without the len(df_mensual) == 0 guard: the read of ggr[-1]
\* is reached with an empty array.
predecir_ggr_raises_sin_guarda(mensual) ==
    LET n == Len(mensual)
    IN IF n >= 3 THEN IndexError(n, 1) \/ IndexError(n, 2) \/ IndexError(n, 3)
       ELSE IF n = 2 THEN IndexError(n, 1) \/ IndexError(n, 2)
       ELSE IndexError(n, 1)

\* Whether predecir_ggr raises: the empty frame returns before any read.
predecir_ggr_raises(mensual) ==
    LET n == Len(mensual)
    IN IF n = 0 THEN FALSE
       ELSE IF n >= 3 THEN IndexError(n, 1) \/ IndexError(n, 2) \/ IndexError(n, 3)
       ELSE IF n = 2 THEN IndexError(n, 1) \/ IndexError(n, 2)
       ELSE IndexError(n, 1)

-----------------------------------------------------------------------------
(* Cohort retention (specification section 4.6; the function is imported   *)
(* by run_pipeline.py from logic_analytics).                               *)

\* The distinct players of the records of month m.
JugadoresDelMes(df, m) ==
    {df[i].jugador_id : i \in {j \in 1..Len(df) : ToPeriodM(df[j].creado) = m}}
    \ {x \in {df[i].jugador_id : i \in 1..Len(df)} : IsNa(x)}

\* Retention rate in hundredths of a percent.
TasaRetencion(prev, curr) ==
    IF prev = {} THEN 0
    ELSE (Cardinality(prev \cap curr) * 10000) \div Cardinality(prev)

\* analizar_retencion_cohortes with one row for every observed month, the
\* first month compared with itself.
analizar_retencion_cohortes_desde_primero(df_agente) ==
    LET df == DropNa(df_agente)
        meses == SetToSeqAsc({ToPeriodM(df[i].creado) : i \in 1..Len(df)})
    IN [k \in 1..Len(meses) |->
           [mes |-> meses[k],
            tasa_retencion |->
                TasaRetencion(JugadoresDelMes(df, meses[IF k = 1 THEN 1 ELSE k - 1]),
                              JugadoresDelMes(df, meses[k]))]]

\* One row per pair of consecutive observed months, from the second month.
analizar_retencion_cohortes(df_agente) ==
    LET df == DropNa(df_agente)
        meses == SetToSeqAsc({ToPeriodM(df[i].creado) : i \in 1..Len(df)})
    IN [k \in 1..(Len(meses) - 1) |->
           [mes |-> meses[k + 1],
            tasa_retencion |-> TasaRetencion(JugadoresDelMes(df, meses[k]),
                                             JugadoresDelMes(df, meses[k + 1]))]]

-----------------------------------------------------------------------------
(* Organic growth (specification section 4.7; the function is imported by  *)
(* run_pipeline.py from logic_analytics).                                  *)

\* analizar_crecimiento_organico with the historical set updated before new
\* and returning are computed.
analizar_crecimiento_organico_tras_actualizar(df_agente) ==
    LET df == DropNa(df_agente)
        meses == SetToSeqAsc({ToPeriodM(df[i].creado) : i \in 1..Len(df)})
        Historico(k) == UNION {JugadoresDelMes(df, meses[j]) : j \in 1..k}
        Fila(k) ==
            LET actuales == JugadoresDelMes(df, meses[k])
                previos == IF k = 1 THEN {} ELSE JugadoresDelMes(df, meses[k - 1])
                nuevos == actuales \ Historico(k)
                recurrentes == IF k = 1 THEN {} ELSE (actuales \ previos) \ nuevos
            IN [mes |-> meses[k],
                nuevos |-> Cardinality(nuevos),
                recurrentes |-> Cardinality(recurrentes),
                total |-> Cardinality(actuales),
                pct_nuevos |-> IF actuales = {} THEN 0
                               ELSE (Cardinality(nuevos) * 10000) \div Cardinality(actuales)]
    IN [k \in 1..Len(meses) |-> Fila(k)]

\* One row per observed month; the historical set of month k holds the
\* players of the months before it.  pct_nuevos in hundredths of a percent.
analizar_crecimiento_organico(df_agente) ==
    LET df == DropNa(df_agente)
        meses == SetToSeqAsc({ToPeriodM(df[i].creado) : i \in 1..Len(df)})
        Historico(k) == UNION {JugadoresDelMes(df, meses[j]) : j \in 1..(k - 1)}
        Fila(k) ==
            LET actuales == JugadoresDelMes(df, meses[k])
                previos == IF k = 1 THEN {} ELSE JugadoresDelMes(df, meses[k - 1])
                nuevos == actuales \ Historico(k)
                recurrentes == IF k = 1 THEN {} ELSE (actuales \ previos) \ nuevos
            IN [mes |-> meses[k],
                nuevos |-> Cardinality(nuevos),
                recurrentes |-> Cardinality(recurrentes),
                total |-> Cardinality(actuales),
                pct_nuevos |-> IF actuales = {} THEN 0
                               ELSE (Cardinality(nuevos) * 10000) \div Cardinality(actuales)]
    IN [k \in 1..Len(meses) |-> Fila(k)]

-----------------------------------------------------------------------------
(* rank_global: run_pipeline.py line 117 and aggregator.py line 92.        *)

\* rank(ascending=False, method='dense'): equal scores share a rank and the
\* next score takes the next rank.
RankMin_dense(scores, i) ==
    1 + Cardinality({scores[j] : j \in {k \in 1..Len(scores) : scores[k] > scores[i]}})

\* Series.rank(ascending=False, method='min')[i]: the scores are put in
\* descending order and equal scores all take the position of the first of
\* them.
RankMin(scores, i) ==
    LET asc == SortAsc(scores)
        n == Len(scores)
        ultimo == CHOOSE q \in 1..n :
                      /\ asc[q] = scores[i]
                      /\ \A r \in 1..n : asc[r] = scores[i] => r <= q
    IN n + 1 - ultimo

-----------------------------------------------------------------------------
(* The class order of the dashboard: report_html.py, lines 101-120.  The   *)
(* labels are those categorizar_agente returns, all of them strings.       *)

\* c.count(ch)
Count(c, ch) == Cardinality({i \in 1..Len(c) : c[i] = ch})

\* sort_key_clase adding the number of '+' to the rank of the letter.
sort_key_clase_suma(c) ==
    LET letter == c[1]
        rank == IF letter = "A" THEN 100
                ELSE IF letter = "B" THEN 200
                ELSE IF letter = "C" THEN 300
                ELSE 400
        suffix == Count(c, "+")
    IN rank + suffix

sort_key_clase(c) ==
    LET letter == c[1]
        rank == IF letter = "A" THEN 100
                ELSE IF letter = "B" THEN 200
                ELSE IF letter = "C" THEN 300
                ELSE 400
        suffix == Count(c, "+")
    IN rank - suffix

\* list.sort(key=sort_key_clase), stable: an element goes after the elements
\* before it whose key is not larger.
RECURSIVE SortClases(_)
SortClases(unique_classes) ==
    IF Len(unique_classes) <= 1 THEN unique_classes
    ELSE LET n == Len(unique_classes)
             c == unique_classes[n]
             antes == SortClases(SubSeq(unique_classes, 1, n - 1))
             k == Cardinality({i \in 1..(n - 1) :
                                  sort_key_clase(antes[i]) <= sort_key_clase(c)})
         IN SubSeq(antes, 1, k) \o <<c>> \o SubSeq(antes, k + 1, n - 1)

-----------------------------------------------------------------------------
(* The batch loop of main: run_pipeline.py, lines 43-107.                  *)

\* metricas, df_mensual = calcular_metricas_agente(df_agent, total_jugadores_global)
LlamarCalcularMetricas ==
    /\ pc = "metricas"
    /\ LET r == calcular_metricas_agente(df_agent, total_jugadores_global)
       IN /\ metricas' = r[1]
          /\ df_mensual' = r[2]
    /\ pc' = "score"
    /\ UNCHANGED <<agentes, agent_idx, agent_records, df_agent, total_jugadores_global,
                   score, categoria, credito, detalles, ggr_prediccion, ggr_redondeo,
                   df_retencion, df_crecimiento, df_agents, servidor, record>>

\* LlamarScoreTotal adding to the score left by the agent processed before.
LlamarScoreTotal_acumulado ==
    /\ pc = "score"
    /\ score' = score + calcular_score_total(metricas)
    /\ pc' = "categoria"
    /\ UNCHANGED <<agentes, agent_idx, agent_records, df_agent, total_jugadores_global,
                   metricas, df_mensual, categoria, credito, detalles,
                   ggr_prediccion, ggr_redondeo, df_retencion, df_crecimiento, df_agents, servidor, record>>

\* score = calcular_score_total(metricas)
LlamarScoreTotal ==
    /\ pc = "score"
    /\ score' = calcular_score_total(metricas)
    /\ pc' = "categoria"
    /\ UNCHANGED <<agentes, agent_idx, agent_records, df_agent, total_jugadores_global,
                   metricas, df_mensual, categoria, credito, detalles,
                   ggr_prediccion, ggr_redondeo, df_retencion, df_crecimiento, df_agents, servidor, record>>

\* categoria, descripcion = categorizar_agente(score)
LlamarCategorizar ==
    /\ pc = "categoria"
    /\ categoria' = categorizar_agente(score)
    /\ pc' = "credito"
    /\ UNCHANGED <<agentes, agent_idx, agent_records, df_agent, total_jugadores_global,
                   metricas, df_mensual, score, credito, detalles, ggr_prediccion, ggr_redondeo,
                   df_retencion, df_crecimiento, df_agents, servidor, record>>

\* credito, detalles = calcular_credito_sugerido(df_mensual, score, metricas)
LlamarCredito ==
    /\ pc = "credito"
    /\ LET r == calcular_credito_sugerido(df_mensual, score, metricas)
       IN /\ credito' = r[1]
          /\ detalles' = r[2]
    /\ pc' = "prediccion"
    /\ UNCHANGED <<agentes, agent_idx, agent_records, df_agent, total_jugadores_global,
                   metricas, df_mensual, score, categoria, ggr_prediccion, ggr_redondeo,
                   df_retencion, df_crecimiento, df_agents, servidor, record>>

\* ggr_prediccion = predecir_ggr(df_mensual)
LlamarPredecir ==
    /\ pc = "prediccion"
    /\ IF predecir_ggr_raises(df_mensual)
       THEN /\ pc' = "except"
            /\ UNCHANGED <<ggr_prediccion, ggr_redondeo>>
       ELSE /\ ggr_prediccion' = predecir_ggr(df_mensual)
            /\ ggr_redondeo' = predecir_ggr_redondeo(df_mensual)
            /\ pc' = "retencion"
    /\ UNCHANGED <<agentes, agent_idx, agent_records, df_agent, total_jugadores_global,
                   metricas, df_mensual, score, categoria, credito, detalles,
                   df_retencion, df_crecimiento, df_agents, servidor, record>>

\* df_retencion = analizar_retencion_cohortes(df_agent)
LlamarRetencion ==
    /\ pc = "retencion"
    /\ df_retencion' = analizar_retencion_cohortes(df_agent)
    /\ pc' = "crecimiento"
    /\ UNCHANGED <<agentes, agent_idx, agent_records, df_agent, total_jugadores_global,
                   metricas, df_mensual, score, categoria, credito, detalles,
                   ggr_prediccion, ggr_redondeo, df_crecimiento, df_agents, servidor, record>>

\* df_crecimiento = analizar_crecimiento_organico(df_agent)
LlamarCrecimiento ==
    /\ pc = "crecimiento"
    /\ df_crecimiento' = analizar_crecimiento_organico(df_agent)
    /\ pc' = "registro"
    /\ UNCHANGED <<agentes, agent_idx, agent_records, df_agent, total_jugadores_global,
                   metricas, df_mensual, score, categoria, credito, detalles,
                   ggr_prediccion, ggr_redondeo, df_retencion, df_agents, servidor, record>>

\* record = {...}; record.update(metricas); agent_records.append(record).
\* An empty df_mensual is a frame without columns:
\* df_mensual['total_depositos'] raises KeyError, which the loop's except
\* clause catches, and nothing is appended.
ConstruirRegistro ==
    /\ pc = "registro"
    /\ IF Len(df_mensual) = 0
       THEN /\ pc' = "except"
            /\ UNCHANGED <<record, agent_records>>
       ELSE /\ record' =
                   [nombre_usuario_agente |-> agent_idx,
                    score_global |-> score,
                    Clase |-> categoria[1],
                    Risk_Safe |-> RiskSafe(categoria[1]),
                    credito_sugerido |-> credito,
                    descripcion_categoria |-> categoria[2],
                    ggr_prediccion |-> ggr_prediccion,
                    active_players |-> NUnique(df_agent, "jugador_id"),
                    total_depositos |-> SumSeq(Column(df_mensual, "total_depositos")),
                    calculo_ngr |-> SumSeq(Column(df_mensual, "calculo_ngr")),
                    calculo_ggr |->
                        SumSeq(Column(df_mensual, "apuestas_deportivas_ggr"))
                        + SumSeq(Column(df_mensual, "casino_ggr"))]
                   @@ metricas
            /\ agent_records' = Append(agent_records, record')
            /\ pc' = "fin"
    /\ UNCHANGED <<agentes, agent_idx, df_agent, total_jugadores_global, metricas,
                   df_mensual, score, categoria, credito, detalles, ggr_prediccion, ggr_redondeo,
                   df_retencion, df_crecimiento, df_agents, servidor>>

\* SiguienteAgente with the except clause leaving the loop (break).
SiguienteAgente_break ==
    /\ pc \in {"fin", "except"}
    /\ IF pc = "fin" /\ agent_idx < Len(agentes)
       THEN /\ agent_idx' = agent_idx + 1
            /\ df_agent' = agentes[agent_idx + 1]
            /\ pc' = "metricas"
       ELSE /\ pc' = "df_agents"
            /\ UNCHANGED <<agent_idx, df_agent>>
    /\ UNCHANGED <<agentes, agent_records, total_jugadores_global, metricas, df_mensual,
                   score, categoria, credito, detalles, ggr_prediccion, ggr_redondeo, df_retencion, df_crecimiento, df_agents, servidor,
                   record>>

\* The end of an iteration, by the end of the try body or by
\* "except Exception ...: continue": the for statement takes the next agent,
\* or the loop ends and main goes on to build df_agents.
SiguienteAgente ==
    /\ pc \in {"fin", "except"}
    /\ IF agent_idx < Len(agentes)
       THEN /\ agent_idx' = agent_idx + 1
            /\ df_agent' = agentes[agent_idx + 1]
            /\ pc' = "metricas"
       ELSE /\ pc' = "df_agents"
            /\ UNCHANGED <<agent_idx, df_agent>>
    /\ UNCHANGED <<agentes, agent_records, total_jugadores_global, metricas, df_mensual,
                   score, categoria, credito, detalles, ggr_prediccion, ggr_redondeo, df_retencion, df_crecimiento, df_agents, servidor,
                   record>>

\* df_agents = pd.DataFrame(agent_records); if not df_agents.empty:
\* df_agents['rank_global'] = df_agents['score_global'].rank(ascending=False,
\* method='min').astype(int)
RecalcularRank ==
    /\ pc = "df_agents"
    /\ LET scores == Column(agent_records, "score_global")
       IN df_agents' = [i \in 1..Len(agent_records) |->
                           agent_records[i] @@ [rank_global |-> RankMin(scores, i)]]
    /\ pc' = "hecho"
    /\ UNCHANGED <<agentes, agent_idx, agent_records, df_agent, total_jugadores_global,
                   metricas, df_mensual, score, categoria, credito, detalles,
                   ggr_prediccion, ggr_redondeo, df_retencion, df_crecimiento, servidor, record>>

Next ==
    \/ LlamarCalcularMetricas
    \/ LlamarScoreTotal
    \/ LlamarCategorizar
    \/ LlamarCredito
    \/ LlamarPredecir
    \/ LlamarRetencion
    \/ LlamarCrecimiento
    \/ ConstruirRegistro
    \/ SiguienteAgente
    \/ RecalcularRank

-----------------------------------------------------------------------------
(* run_server of start_server.py.  A bind on a port of puertos_ocupados    *)
(* raises OSError; a server that is bound serves until it is interrupted.  *)

PORT == 8080

\* start_server.py has not been started.
ServidorParado ==
    /\ port = PORT
    /\ puertos_ocupados = {}
    /\ intentados = <<>>

ResultadosSinCambio ==
    UNCHANGED <<agentes, agent_idx, agent_records, df_agent, total_jugadores_global,
                metricas, df_mensual, score, categoria, credito, detalles,
                ggr_prediccion, ggr_redondeo, df_retencion, df_crecimiento, df_agents, record>>

\* IntentarBind giving up only once port exceeds 8091.
IntentarBind_hasta_8091 ==
    /\ pc = "bind"
    /\ intentados' = Append(intentados, port)
    /\ IF port \notin puertos_ocupados
       THEN /\ pc' = "serve_forever"
            /\ UNCHANGED port
       ELSE /\ port' = port + 1
            /\ pc' = IF port + 1 > 8091 THEN "sin_puertos" ELSE "bind"
    /\ UNCHANGED puertos_ocupados
    /\ ResultadosSinCambio

\* One turn of the while loop: socketserver.TCPServer(("", port), Handler),
\* then either serve_forever() or the except OSError clause.
IntentarBind ==
    /\ pc = "bind"
    /\ intentados' = Append(intentados, port)
    /\ IF port \notin puertos_ocupados
       THEN /\ pc' = "serve_forever"
            /\ UNCHANGED port
       ELSE /\ port' = port + 1
            /\ pc' = IF port + 1 > 8090 THEN "sin_puertos" ELSE "bind"
    /\ UNCHANGED puertos_ocupados
    /\ ResultadosSinCambio

\* The ports that may be taken when run_server starts: 8080 to 8091.
MaxPuertos == 12

InitServidor ==
    /\ pc = "bind"
    /\ port = PORT
    /\ puertos_ocupados \in SUBSET (PORT..(PORT + MaxPuertos - 1))
    /\ intentados = <<>>
    /\ df_agent = <<>>
    /\ agentes = <<df_agent>>
    /\ agent_idx = 1
    /\ agent_records = <<>>
    /\ df_retencion = <<>>
    /\ df_crecimiento = <<>>
    /\ df_agents = <<>>
    /\ total_jugadores_global = 1
    /\ metricas = [k \in DOMAIN PESOS_METRICAS |-> 0]
    /\ df_mensual = <<>>
    /\ score = 0
    /\ categoria = <<<<>>, "">>
    /\ credito = 0
    /\ detalles = [credito |-> 0]
    /\ ggr_prediccion = 0
    /\ ggr_redondeo = 0
    /\ record = [score_global |-> 0]

NextServidor == IntentarBind

SpecServidor == InitServidor /\ [][NextServidor]_vars

-----------------------------------------------------------------------------
(* Inputs.                                                                 *)

MaxMeses == 3

Registro(ok, jug, ngr, com, ndep, nret, tdep, tret, dep, cas) ==
    [creado |-> [ok |-> ok, mes |-> 0, dia |-> 1], jugador_id |-> jug,
     calculo_ngr |-> ngr, calculo_comision |-> com,
     num_depositos |-> ndep, num_retiros |-> nret,
     total_depositos |-> tdep, total_retiros |-> tret,
     apuestas_deportivas_ggr |-> dep, casino_ggr |-> cas]

\* One month of activity each: a strong month, an idle month, a month with a
\* negative casino GGR and NGR, a modest month, a thin month, and a record
\* whose timestamp does not parse.
Muestras ==
    {Registro(TRUE, 1, 12000, 3000, 100, 23000, 100000, 50000, 8000, 8000),
     Registro(TRUE, 1, 0, 0, 0, 0, 0, 0, 0, 0),
     Registro(TRUE, 2, -200, 0, 10, 5, 1000, 300, 200, -100),
     Registro(TRUE, 2, 80, 20, 12, 3, 1000, 200, 100, 100),
     Registro(TRUE, 3, 30, 5, 5, 0, 1000, 0, 0, 100),
     Registro(FALSE, 3, 80, 20, 12, 3, 1000, 200, 100, 100)}

\* Row i of a table is dated in month i.
ConMes(r, i) ==
    [r EXCEPT !.creado = [ok |-> r.creado.ok, mes |-> IF r.creado.ok THEN i ELSE 0,
                          dia |-> r.creado.dia]]

\* An agent of the batch has at least one record: agentes holds the agent
\* names found in the records.
TablasAgente ==
    UNION {{[i \in 1..n |-> ConMes(f[i], i)] : f \in [1..n -> Muestras]} : n \in 1..MaxMeses}

PlataformaJugadores == {0, 3, 40}

SinRegistro == [score_global |-> 0]

Init ==
    /\ pc = "metricas"
    /\ df_agent \in TablasAgente
    /\ agentes = <<df_agent>>
    /\ agent_idx = 1
    /\ agent_records = <<>>
    /\ df_retencion = <<>>
    /\ df_crecimiento = <<>>
    /\ df_agents = <<>>
    /\ ServidorParado
    /\ total_jugadores_global \in PlataformaJugadores
    /\ metricas = [k \in DOMAIN PESOS_METRICAS |-> 0]
    /\ df_mensual = <<>>
    /\ score = 0
    /\ categoria = <<<<>>, "">>
    /\ credito = 0
    /\ detalles = [credito |-> 0]
    /\ ggr_prediccion = 0
    /\ ggr_redondeo = 0
    /\ record = SinRegistro

Spec == Init /\ [][Next]_vars

-----------------------------------------------------------------------------
(* The whole loop over a batch of agents.  An agent's table is one of: a   *)
(* modest month; a record whose timestamp does not parse; a modest month   *)
(* followed by an unparseable record; two unparseable records.             *)

MaxAgentes == 3

TablasLote ==
    LET bueno == Registro(TRUE, 2, 80, 20, 12, 3, 1000, 200, 100, 100)
        nat == Registro(FALSE, 3, 80, 20, 12, 3, 1000, 200, 100, 100)
    IN {[i \in 1..Len(f) |-> ConMes(f[i], i)]
        : f \in {<<bueno>>, <<nat>>, <<bueno, nat>>, <<nat, nat>>}}

Lotes == UNION {[1..n -> TablasLote] : n \in 1..MaxAgentes}

\* total_jugadores_global = df['jugador_id'].nunique()
JugadoresDelLote(lote) ==
    Cardinality({x \in UNION {{lote[a][i].jugador_id : i \in 1..Len(lote[a])}
                              : a \in 1..Len(lote)} : ~IsNa(x)})

InitLote ==
    /\ pc = "metricas"
    /\ agentes \in Lotes
    /\ agent_idx = 1
    /\ df_agent = agentes[1]
    /\ agent_records = <<>>
    /\ df_retencion = <<>>
    /\ df_crecimiento = <<>>
    /\ df_agents = <<>>
    /\ ServidorParado
    /\ total_jugadores_global = JugadoresDelLote(agentes)
    /\ metricas = [k \in DOMAIN PESOS_METRICAS |-> 0]
    /\ df_mensual = <<>>
    /\ score = 0
    /\ categoria = <<<<>>, "">>
    /\ credito = 0
    /\ detalles = [credito |-> 0]
    /\ ggr_prediccion = 0
    /\ ggr_redondeo = 0
    /\ record = SinRegistro

SpecLote == InitLote /\ [][Next]_vars

-----------------------------------------------------------------------------
(* Grouping by month and cohort retention on their own: tables of records  *)
(* in any order, several of them in the same month, months 1, 2 and 4 (no  *)
(* record in month 3), players 1 and 2, a record of month 1 without player *)
(* id, and a record whose timestamp does not parse.  The NGR of a record   *)
(* tells its player.                                                       *)

MaxRegistros == 3

RegistroCohorte(ok, mes, jug) ==
    [Registro(ok, jug, 80 + jug, 20, 12, 3, 1000, 200, 100, 100)
         EXCEPT !.creado = [ok |-> ok, mes |-> mes, dia |-> 1]]

MuestrasCohorte ==
    {RegistroCohorte(TRUE, m, j) : m \in {1, 2, 4}, j \in {1, 2}}
    \cup {RegistroCohorte(TRUE, 1, 0), RegistroCohorte(FALSE, 0, 1)}

TablasCohorte == UNION {[1..n -> MuestrasCohorte] : n \in 1..MaxRegistros}

InitAgrupar ==
    /\ pc = "metricas"
    /\ df_agent \in TablasCohorte
    /\ agentes = <<df_agent>>
    /\ agent_idx = 1
    /\ agent_records = <<>>
    /\ df_retencion = <<>>
    /\ df_crecimiento = <<>>
    /\ df_agents = <<>>
    /\ ServidorParado
    /\ total_jugadores_global = JugadoresDelLote(agentes)
    /\ metricas = [k \in DOMAIN PESOS_METRICAS |-> 0]
    /\ df_mensual = <<>>
    /\ score = 0
    /\ categoria = <<<<>>, "">>
    /\ credito = 0
    /\ detalles = [credito |-> 0]
    /\ ggr_prediccion = 0
    /\ ggr_redondeo = 0
    /\ record = SinRegistro

NextAgrupar == LlamarCalcularMetricas

SpecAgrupar == InitAgrupar /\ [][NextAgrupar]_vars

InitRetencion ==
    /\ pc = "retencion"
    /\ df_agent \in TablasCohorte
    /\ agentes = <<df_agent>>
    /\ agent_idx = 1
    /\ agent_records = <<>>
    /\ df_retencion = <<>>
    /\ df_crecimiento = <<>>
    /\ df_agents = <<>>
    /\ ServidorParado
    /\ total_jugadores_global = JugadoresDelLote(agentes)
    /\ metricas = [k \in DOMAIN PESOS_METRICAS |-> 0]
    /\ df_mensual = <<>>
    /\ score = 0
    /\ categoria = <<<<>>, "">>
    /\ credito = 0
    /\ detalles = [credito |-> 0]
    /\ ggr_prediccion = 0
    /\ ggr_redondeo = 0
    /\ record = SinRegistro

NextRetencion == LlamarRetencion

SpecRetencion == InitRetencion /\ [][NextRetencion]_vars

InitCrecimiento ==
    /\ pc = "crecimiento"
    /\ df_agent \in TablasCohorte
    /\ agentes = <<df_agent>>
    /\ agent_idx = 1
    /\ agent_records = <<>>
    /\ df_retencion = analizar_retencion_cohortes(df_agent)
    /\ df_crecimiento = <<>>
    /\ df_agents = <<>>
    /\ ServidorParado
    /\ total_jugadores_global = JugadoresDelLote(agentes)
    /\ metricas = [k \in DOMAIN PESOS_METRICAS |-> 0]
    /\ df_mensual = <<>>
    /\ score = 0
    /\ categoria = <<<<>>, "">>
    /\ credito = 0
    /\ detalles = [credito |-> 0]
    /\ ggr_prediccion = 0
    /\ ggr_redondeo = 0
    /\ record = SinRegistro

NextCrecimiento == LlamarCrecimiento

SpecCrecimiento == InitCrecimiento /\ [][NextCrecimiento]_vars

-----------------------------------------------------------------------------
(* The ranking on its own: any list of profile records with scores 0, 4.5  *)
(* and 8.5, ties included.                                                 *)

MaxAgentesRank == 4

ScoresRank == {0, 450000, 850000}

RegistrosRank ==
    UNION {{[i \in 1..n |-> [nombre_usuario_agente |-> i, score_global |-> f[i]]]
            : f \in [1..n -> ScoresRank]} : n \in 0..MaxAgentesRank}

InitRank ==
    /\ pc = "df_agents"
    /\ agent_records \in RegistrosRank
    /\ df_agent = <<>>
    /\ agentes = <<df_agent>>
    /\ agent_idx = 1
    /\ df_retencion = <<>>
    /\ df_crecimiento = <<>>
    /\ df_agents = <<>>
    /\ ServidorParado
    /\ total_jugadores_global = 1
    /\ metricas = [k \in DOMAIN PESOS_METRICAS |-> 0]
    /\ df_mensual = <<>>
    /\ score = 0
    /\ categoria = <<<<>>, "">>
    /\ credito = 0
    /\ detalles = [credito |-> 0]
    /\ ggr_prediccion = 0
    /\ ggr_redondeo = 0
    /\ record = SinRegistro

NextRank == RecalcularRank

SpecRank == InitRank /\ [][NextRank]_vars

-----------------------------------------------------------------------------
(* calcular_credito_sugerido on its own: any monthly NGR series, any score *)
(* and stability (the function accepts whatever its caller passes; 100.0   *)
(* stands for a caller's score outside [0,10]).                            *)

MaxMesesCredito == 3

NgrCredito == {-50, 0, 90, 100, 400, 6000, 20000}

SeriesCredito ==
    UNION {{[i \in 1..n |-> [mes |-> i, calculo_ngr |-> f[i]]] : f \in [1..n -> NgrCredito]}
           : n \in 0..MaxMesesCredito}

ScoresCredito == {0, 450000, 1000000, 10000000}

EstabilidadesCredito == {0, 5000, 10000}

InitCredito ==
    /\ pc = "credito"
    /\ df_agent = <<>>
    /\ agentes = <<df_agent>>
    /\ agent_idx = 1
    /\ agent_records = <<>>
    /\ df_retencion = <<>>
    /\ df_crecimiento = <<>>
    /\ df_agents = <<>>
    /\ ServidorParado
    /\ total_jugadores_global = 1
    /\ \E e \in EstabilidadesCredito :
           metricas = [k \in DOMAIN PESOS_METRICAS |-> IF k = "estabilidad" THEN e ELSE 0]
    /\ df_mensual \in SeriesCredito
    /\ score \in ScoresCredito
    /\ categoria = <<<<>>, "">>
    /\ credito = 0
    /\ detalles = [credito |-> 0]
    /\ ggr_prediccion = 0
    /\ ggr_redondeo = 0
    /\ record = SinRegistro

NextCredito == LlamarCredito

SpecCredito == InitCredito /\ [][NextCredito]_vars

-----------------------------------------------------------------------------
(* predecir_ggr on its own: any monthly series of sportsbook and casino    *)
(* GGR, in chronological order; ggr_prediccion holds what an earlier       *)
(* iteration of the loop left in it.                                       *)

MaxMesesPrediccion == 4

DeportesPrediccion == {-100, 0, 200}

CasinoPrediccion == {0, 31}

SeriesPrediccion ==
    UNION {{[i \in 1..n |-> [mes |-> i, apuestas_deportivas_ggr |-> f[i][1],
                             casino_ggr |-> f[i][2]]]
            : f \in [1..n -> DeportesPrediccion \X CasinoPrediccion]}
           : n \in 0..MaxMesesPrediccion}

PrediccionesPrevias == {0, 2700}

InitPredecir ==
    /\ pc = "prediccion"
    /\ df_agent = <<>>
    /\ agentes = <<df_agent>>
    /\ agent_idx = 1
    /\ agent_records = <<>>
    /\ df_retencion = <<>>
    /\ df_crecimiento = <<>>
    /\ df_agents = <<>>
    /\ ServidorParado
    /\ total_jugadores_global = 1
    /\ metricas = [k \in DOMAIN PESOS_METRICAS |-> 0]
    /\ df_mensual \in SeriesPrediccion
    /\ score = 0
    /\ categoria = <<<<>>, "">>
    /\ credito = 0
    /\ detalles = [credito |-> 0]
    /\ ggr_prediccion \in PrediccionesPrevias
    /\ ggr_redondeo = 0
    /\ record = SinRegistro

NextPredecir == LlamarPredecir

SpecPredecir == InitPredecir /\ [][NextPredecir]_vars

-----------------------------------------------------------------------------
(* calcular_score_total on its own: every metric at 0 or 10, rentabilidad  *)
(* also at 5, calidad_jugadores also one thousandth from either end, and   *)
(* diversificacion also at the negative value the pipeline can produce.    *)

MetricasScore ==
    [rentabilidad : {0, 5000, 10000}, volumen : {0, 10000}, fidelidad : {0, 10000},
     estabilidad : {0, 10000}, crecimiento : {0, 10000}, eficiencia_casino : {0, 10000},
     eficiencia_deportes : {0, 10000}, eficiencia_conversion : {0, 10000},
     tendencia : {0, 10000}, diversificacion : {-40000, 0, 10000},
     calidad_jugadores : {0, 1, 9999, 10000}]

InitScore ==
    /\ pc = "score"
    /\ metricas \in MetricasScore
    /\ df_agent = <<>>
    /\ agentes = <<df_agent>>
    /\ agent_idx = 1
    /\ agent_records = <<>>
    /\ df_retencion = <<>>
    /\ df_crecimiento = <<>>
    /\ df_agents = <<>>
    /\ ServidorParado
    /\ total_jugadores_global = 1
    /\ df_mensual = <<>>
    /\ score = 0
    /\ categoria = <<<<>>, "">>
    /\ credito = 0
    /\ detalles = [credito |-> 0]
    /\ ggr_prediccion = 0
    /\ ggr_redondeo = 0
    /\ record = SinRegistro

NextScore == LlamarScoreTotal

SpecScore == InitScore /\ [][NextScore]_vars

-----------------------------------------------------------------------------
(* categorizar_agente on its own: scores on a grid of 0.05 from -1 to 11,  *)
(* and the scores 10^-5 around every point of the grid.                    *)

ScoreDominio == {k * 5000 + d : k \in -20..220, d \in {-1, 0, 1}}

InitCategorizar ==
    /\ pc = "categoria"
    /\ df_agent = <<>>
    /\ agentes = <<df_agent>>
    /\ agent_idx = 1
    /\ agent_records = <<>>
    /\ df_retencion = <<>>
    /\ df_crecimiento = <<>>
    /\ df_agents = <<>>
    /\ ServidorParado
    /\ total_jugadores_global = 1
    /\ metricas = [k \in DOMAIN PESOS_METRICAS |-> 0]
    /\ df_mensual = <<>>
    /\ score \in ScoreDominio
    /\ categoria = <<<<>>, "">>
    /\ credito = 0
    /\ detalles = [credito |-> 0]
    /\ ggr_prediccion = 0
    /\ ggr_redondeo = 0
    /\ record = SinRegistro

NextCategorizar == LlamarCategorizar

SpecCategorizar == InitCategorizar /\ [][NextCategorizar]_vars

-----------------------------------------------------------------------------
(* Claims.                                                                 *)

MetricKeys ==
    {"rentabilidad", "volumen", "fidelidad", "estabilidad", "crecimiento",
     "eficiencia_casino", "eficiencia_deportes", "eficiencia_conversion",
     "tendencia", "diversificacion", "calidad_jugadores"}

\* metricas and df_mensual hold the result of calcular_metricas_agente.
Calculado ==
    pc \in {"score", "categoria", "credito", "prediccion", "retencion", "crecimiento",
            "registro", "fin", "except"}

EnRango(m) ==
    /\ \A k \in MetricKeys : m[k] >= 0 /\ m[k] <= 10000

\* C1: every metric of the global score set and of every per-month row lies
\* in [0,10], and rentabilidad exceeds 7 only by its volume bonus, which is
\* granted only for a positive NGR.
C1_MetricasEnRango ==
    Calculado =>
        /\ EnRango(metricas)
        /\ \A i \in 1..Len(df_mensual) :
               /\ EnRango(df_mensual[i])
               /\ df_mensual[i].rentabilidad > 7000 => df_mensual[i].calculo_ngr > 0
        /\ metricas.rentabilidad > 7000 =>
               SumSeq(Column(df_mensual, "calculo_ngr")) > 0

\* C2: for an agent whose parseable records fall in one calendar month, the
\* per-month row holds the same eleven scores as the global score set.
C2_MensualIgualGlobal ==
    (Calculado /\ Len(df_mensual) = 1) =>
        \A k \in MetricKeys : df_mensual[1][k] = metricas[k]

\* The efficiency score the specification states, in thousandths.
EficienciaEsperada(depositos, ggr) ==
    IF ggr <= 0 THEN 0
    ELSE IF depositos * 1000 < 55 * ggr THEN 10000
    ELSE IF depositos * 100 < 10 * ggr THEN 7500
    ELSE IF depositos * 100 < 14 * ggr THEN 5000
    ELSE IF depositos * 100 < 20 * ggr THEN 3000
    ELSE IF depositos * 100 < 33 * ggr THEN 2000
    ELSE Max(1000, 10000 - MulDiv(depositos, 10000, ggr))

\* C3: casino and sportsbook efficiency follow the tier table (< 5.5 -> 10,
\* < 10 -> 7.5, < 14 -> 5, < 20 -> 3, < 33 -> 2, else max(1, 10 - val/10); 0
\* without positive GGR) in the global score set and in every per-month row.
C3_EficienciaPorTramos ==
    Calculado =>
        /\ Len(df_mensual) > 0 =>
               /\ metricas.eficiencia_casino =
                      EficienciaEsperada(SumSeq(Column(df_mensual, "num_depositos")),
                                         SumSeq(Column(df_mensual, "casino_ggr")))
               /\ metricas.eficiencia_deportes =
                      EficienciaEsperada(SumSeq(Column(df_mensual, "num_depositos")),
                                         SumSeq(Column(df_mensual, "apuestas_deportivas_ggr")))
        /\ \A i \in 1..Len(df_mensual) :
               /\ df_mensual[i].eficiencia_casino =
                      EficienciaEsperada(df_mensual[i].num_depositos, df_mensual[i].casino_ggr)
               /\ df_mensual[i].eficiencia_deportes =
                      EficienciaEsperada(df_mensual[i].num_depositos,
                                         df_mensual[i].apuestas_deportivas_ggr)

\* The growth score the specification states for a month with a previous
\* month, in thousandths.
CrecimientoEsperado(actual, anterior) ==
    IF anterior = 0 THEN (IF actual > 0 THEN 10000 ELSE 5000)
    ELSE LET dif == (actual - anterior) * 100
         IN IF dif >= 20 * anterior THEN 10000
            ELSE IF dif >= 10 * anterior THEN 8000
            ELSE IF dif >= 5 * anterior THEN 6500
            ELSE IF dif >= 0 THEN 5000
            ELSE IF dif >= -10 * anterior THEN 3500
            ELSE IF dif >= -20 * anterior THEN 2000
            ELSE 1000

\* C4: growth is 5.0 without a previous month, and otherwise the tier of the
\* change of the deposit count (10 from 0 to a positive count, 5 from 0 to
\* 0), for the global score (last row against the one before) and for every
\* per-month row.
C4_CrecimientoPorTramos ==
    (Calculado /\ Len(df_mensual) > 0) =>
        LET n == Len(df_mensual)
        IN /\ metricas.crecimiento =
                  IF n = 1 THEN 5000
                  ELSE CrecimientoEsperado(df_mensual[n].num_depositos,
                                           df_mensual[n - 1].num_depositos)
           /\ \A i \in 1..n :
                  df_mensual[i].crecimiento =
                      IF i = 1 THEN 5000
                      ELSE CrecimientoEsperado(df_mensual[i].num_depositos,
                                               df_mensual[i - 1].num_depositos)

\* The ladder: labels from the top, and the inclusive lower bound of each
\* label but the last, in units of 10^-5.
Etiquetas ==
    <<<<"A", "+", "+", "+">>, <<"A", "+", "+">>, <<"A", "+">>,
      <<"B", "+", "+", "+">>, <<"B", "+", "+">>, <<"B", "+">>,
      <<"C", "+", "+", "+">>, <<"C", "+", "+">>, <<"C", "+">>, <<"C">>>>

Umbrales == <<850000, 800000, 750000, 650000, 550000, 450000, 350000, 250000, 150000>>

\* Position of a label on the ladder, 1 for A+++ down to 10 for C.
Peldano(label) == CHOOSE i \in 1..Len(Etiquetas) : Etiquetas[i] = label

EtiquetaEsperada(s) ==
    Etiquetas[1 + Cardinality({i \in 1..Len(Umbrales) : s < Umbrales[i]})]

\* C5: categorizar_agente gives the one label whose threshold interval holds
\* the score (lower bounds 8.5, 8.0, 7.5, 6.5, 5.5, 4.5, 3.5, 2.5, 1.5,
\* inclusive), and no lower score gets a label higher on the ladder.
C5_Escalera ==
    pc = "credito" =>
        /\ \E i \in 1..Len(Etiquetas) : categoria[1] = Etiquetas[i]
        /\ categoria[1] = EtiquetaEsperada(score)
        /\ \A s1 \in ScoreDominio :
               s1 <= score => Peldano(categoria[1]) <= Peldano(categorizar_agente(s1)[1])

\* A score exactly on the top threshold has been classified A+++.
C5_Witness ==
    /\ pc = "credito"
    /\ score = 850000
    /\ categoria[1] = <<"A", "+", "+", "+">>

RiskSafeCorrecto(flag, clase, s) ==
    /\ flag \in {0, 1}
    /\ (flag = 1) <=> (clase[1] \in {"A", "B"})
    /\ (flag = 1) <=> (s >= 450000)
    /\ RiskSafeStartswith(clase) = flag

SumaEsperada(m) ==
    12 * m.rentabilidad + 15 * m.volumen + 15 * m.fidelidad + 12 * m.estabilidad
    + 10 * m.crecimiento + 8 * m.eficiencia_casino + 8 * m.eficiencia_deportes
    + 11 * m.eficiencia_conversion + 4 * m.tendencia + 3 * m.diversificacion
    + 2 * m.calidad_jugadores

ScoreCalculado ==
    pc \in {"categoria", "credito", "prediccion", "retencion", "crecimiento", "registro",
            "fin", "except"}

\* C7: the combined score is the weighted sum of the eleven global metrics;
\* every per-month row's score_global is the weighted sum of that row's
\* metrics and its Clase is the class of that score.
C7_SumaPonderada ==
    /\ (ScoreCalculado /\ pc # "except") => score = SumaEsperada(metricas)
    /\ Calculado =>
           \A i \in 1..Len(df_mensual) :
               /\ df_mensual[i].score_global = SumaEsperada(df_mensual[i])
               /\ df_mensual[i].Clase = EtiquetaEsperada(df_mensual[i].score_global)

\* A scored agent with two months of different scores and a non-zero quality
\* metric.
C7_Witness ==
    /\ pc = "fin"
    /\ score > 0
    /\ metricas.calidad_jugadores > 0
    /\ Len(df_mensual) >= 2
    /\ df_mensual[1].score_global # df_mensual[2].score_global

\* C8: the weight table has exactly the eleven metric keys, which are the
\* keys of the computed score set, every weight is strictly between 0 and 1,
\* and the weights sum to 1.00.
C8_Pesos ==
    /\ DOMAIN PESOS_METRICAS = MetricKeys
    /\ Calculado => DOMAIN metricas = DOMAIN PESOS_METRICAS
    /\ Cardinality(DOMAIN PESOS_METRICAS) = 11
    /\ \A k \in DOMAIN PESOS_METRICAS : PESOS_METRICAS[k] > 0 /\ PESOS_METRICAS[k] < 100
    /\ SumOver(PESOS_METRICAS, DOMAIN PESOS_METRICAS) = 100

\* The table has been applied: a score set of all tens would score 10, and
\* the agent's score has been computed with it.
C8_Witness ==
    /\ pc = "categoria"
    /\ score > 0
    /\ score = SumOver([k \in MetricKeys |-> metricas[k] * PESOS_METRICAS[k]], MetricKeys)

ConFactores == pc = "prediccion" /\ "p25" \in DOMAIN detalles

ValidosDe(mensual) == SelectSeq(Column(mensual, "calculo_ngr"), LAMBDA v : v > 0)

\* C9: the credit is 0 whenever the 25th percentile of the positive monthly
\* NGR is below 100, whatever the score, the stability and the other factors.
C9_PisoDeConfianza ==
    (ConFactores /\ detalles.p25 < 400) => credito = 0

\* Three positive months with p25 = 95, the top score and more than 15000 of
\* turnover.
C9_Witness ==
    /\ ConFactores
    /\ detalles.p25 < 400
    /\ Len(ValidosDe(df_mensual)) >= 3
    /\ score >= 1000000
    /\ detalles.f_volumen >= 115
    /\ detalles.f_tendencia >= 105

\* The median of a non-empty series, in halves of a unit: the middle value,
\* or the sum of the two middle values, of the values taken in order.
MedianaEsperada(v) ==
    LET n == Len(v)
        Menores(x) == Cardinality({i \in 1..n : v[i] < x})
        NoMayores(x) == Cardinality({i \in 1..n : v[i] <= x})
        \* the k-th smallest value
        Orden(k) == CHOOSE x \in {v[i] : i \in 1..n} : Menores(x) < k /\ k <= NoMayores(x)
    IN IF n % 2 = 1 THEN 2 * Orden((n + 1) \div 2)
       ELSE Orden(n \div 2) + Orden(n \div 2 + 1)

ProductoEsperado(d) ==
    MulDiv(MulDiv(MulDiv(MulDiv(d.f_score, d.p25 * 250, 100000),
                         d.f_volatilidad, 100),
                  d.f_tendencia, 100),
           d.f_volumen, 100)

TopeEsperado(mensual, d) == 3 * MedianaEsperada(ValidosDe(mensual)) * 5 * d.f_volumen

\* C10: with p25 >= 100 the credit is min(p25 x f_score x f_volatilidad x
\* f_tendencia x f_volumen, 3 x median x f_volumen), halved after the cap
\* when fewer than 3 months have positive NGR, so that it then never exceeds
\* 1.5 x median x f_volumen (to the half cent of the final rounding).
C10_TopeYMitad ==
    (ConFactores /\ detalles.p25 >= 400) =>
        LET n == Len(ValidosDe(df_mensual))
            limitado == Min(ProductoEsperado(detalles), TopeEsperado(df_mensual, detalles))
        IN /\ credito = Round2(IF n < 3 THEN limitado \div 2 ELSE limitado)
           /\ n < 3 => credito * 10 <= TopeEsperado(df_mensual, detalles) \div 2 + 5

\* Fewer than three positive months, p25 >= 100, and a product above the cap.
C10_Witness ==
    /\ ConFactores
    /\ detalles.p25 >= 400
    /\ Len(ValidosDe(df_mensual)) < 3
    /\ ProductoEsperado(detalles) > TopeEsperado(df_mensual, detalles)
    /\ credito > 0

SinPositivos(mensual) == \A i \in 1..Len(mensual) : mensual[i].calculo_ngr <= 0

SoloPositivos(mensual) == SelectSeq(mensual, LAMBDA r : r.calculo_ngr > 0)

\* C11: calcular_credito_sugerido returns credit 0 with the "Insuficiente
\* data" details when the monthly aggregate is empty or has no month with
\* strictly positive NGR, and its result is the result for the aggregate
\* with the months of zero or negative NGR removed.
C11_SinDatos ==
    pc = "prediccion" =>
        /\ SinPositivos(df_mensual) =>
               /\ credito = 0
               /\ detalles = [credito |-> 0, razon |-> "Insuficiente data"]
        /\ <<credito, detalles>> =
               calcular_credito_sugerido(SoloPositivos(df_mensual), score, metricas)

\* Two or more months, none positive and one negative, with the top score.
C11_Witness ==
    /\ pc = "prediccion"
    /\ Len(df_mensual) >= 2
    /\ SinPositivos(df_mensual)
    /\ \E i \in 1..Len(df_mensual) : df_mensual[i].calculo_ngr < 0
    /\ score >= 1000000
    /\ credito = 0

GgrMes(r) == r.apuestas_deportivas_ggr + r.casino_ggr

\* C12: the forecast (in tenths) over the monthly total GGR is 0.5 x last +
\* 0.3 x second-to-last + 0.2 x third-to-last with 3 or more months, where
\* the months before the last three have no influence, 0.6 x last + 0.4 x
\* previous with exactly 2 months, and the single value with exactly 1.
C12_Pronostico ==
    pc = "retencion" =>
        LET n == Len(df_mensual)
            g(i) == GgrMes(df_mensual[i])
        IN /\ n >= 3 => /\ ggr_prediccion = 5 * g(n) + 3 * g(n - 1) + 2 * g(n - 2)
                        /\ ggr_prediccion = predecir_ggr(SubSeq(df_mensual, n - 2, n))
           /\ n = 2 => ggr_prediccion = 6 * g(2) + 4 * g(1)
           /\ n = 1 => ggr_prediccion = 10 * g(1)

\* Four months of four different totals, the first not zero.
C12_Witness ==
    /\ pc = "retencion"
    /\ Len(df_mensual) = 4
    /\ Cardinality({GgrMes(df_mensual[i]) : i \in 1..4}) = 4
    /\ GgrMes(df_mensual[1]) # 0
    /\ ggr_prediccion # 0

\* C13: for an empty monthly series predecir_ggr returns 0 without reading
\* an element of the empty series: the call does not raise.
C13_SerieVacia ==
    (pc # "prediccion" /\ Len(df_mensual) = 0) =>
        /\ pc = "retencion"
        /\ ggr_prediccion = 0

\* The forecast of an empty series has been computed.
C13_Witness ==
    /\ pc = "retencion"
    /\ Len(df_mensual) = 0
    /\ ggr_prediccion = 0

SinParseables(df) == \A i \in 1..Len(df) : ~df[i].creado.ok

\* C14: an agent with zero parseable records gets an empty monthly aggregate
\* and an all-zero score set, and the run still produces its profile: the
\* iteration ends without raising, with one record of score 0, class C,
\* credit 0 and forecast 0.
C14_AgenteSinRegistros ==
    /\ (Calculado /\ SinParseables(df_agent)) =>
           /\ df_mensual = <<>>
           /\ \A k \in MetricKeys : metricas[k] = 0
    /\ (pc \in {"fin", "except"} /\ SinParseables(df_agent)) =>
           /\ pc = "fin"
           /\ Len(agent_records) = 1
           /\ record.score_global = 0
           /\ record.Clase = <<"C">>
           /\ record.credito_sugerido = 0
           /\ record.ggr_prediccion = 0

\* The agents whose iteration is over.
Terminados ==
    IF pc \in {"fin", "except", "df_agents", "hecho"} THEN agent_idx ELSE agent_idx - 1

\* C15: a failure while processing one agent does not stop the loop: the
\* loop ends only after the last agent, and agent_records holds exactly one
\* record, in order, for every processed agent whose iteration did not raise
\* (the agents with a parseable record).
C15_FallosAislados ==
    /\ [i \in 1..Len(agent_records) |-> agent_records[i].nombre_usuario_agente]
           = SetToSeqAsc({i \in 1..Terminados : ~SinParseables(agentes[i])})
    /\ pc \in {"df_agents", "hecho"} => agent_idx = Len(agentes)

\* The loop has ended after a failing first agent, a second agent that
\* produced a record and a failing third agent.
C15_Witness ==
    /\ pc = "df_agents"
    /\ Len(agentes) = 3
    /\ SinParseables(agentes[1])
    /\ ~SinParseables(agentes[2])
    /\ SinParseables(agentes[3])
    /\ Len(agent_records) = 1

\* C16: with exactly one monthly aggregate the global stability score and
\* the global growth score are the neutral 5.0, and with one or two monthly
\* aggregates the global trend score is the neutral 5.
C16_HistoriaInsuficiente ==
    Calculado =>
        /\ Len(df_mensual) = 1 =>
               /\ metricas.estabilidad = 5000
               /\ metricas.crecimiento = 5000
        /\ Len(df_mensual) \in {1, 2} => metricas.tendencia = 5000

\* An agent with a single month of non-zero NGR and deposits has been scored.
C16_Witness ==
    /\ Calculado
    /\ Len(df_mensual) = 1
    /\ df_mensual[1].calculo_ngr # 0
    /\ df_mensual[1].num_depositos > 0
    /\ metricas.estabilidad = 5000
    /\ metricas.tendencia = 5000

\* The point of [slo, shi] that corresponds to ef in [lo, hi].
Lineal(ef, lo, hi, slo, shi) == slo + ((ef - lo) * (shi - slo)) \div (hi - lo)

BandaEsperada(ef) ==
    IF ef < 0 THEN 0
    ELSE IF ef < 400 THEN Lineal(ef, 0, 400, 0, 4000)
    ELSE IF ef < 600 THEN Lineal(ef, 400, 600, 4000, 6000)
    ELSE IF ef < 800 THEN Lineal(ef, 600, 800, 6000, 8000)
    ELSE Lineal(ef, 800, 1000, 8000, 10000)

\* Values of ef from -0.2 to 1 in steps of 0.05, and around every band
\* boundary in steps of 0.001.
EfMuestras ==
    {50 * k : k \in -4..20}
    \cup {b + d : b \in {0, 400, 600, 800}, d \in -2..2}

\* C17: with two or more months the global stability score is the image of
\* ef = 1 - CV under the four linear bands [0.8,1] -> [8,10], [0.6,0.8) ->
\* [6,8), [0.4,0.6) -> [4,6), [0,0.4) -> [0,4), and 0 for ef < 0; the mapping
\* is non-decreasing in ef and has no jump at 0.4, 0.6 and 0.8.
C17_BandasDeEstabilidad ==
    (Calculado /\ Len(df_mensual) >= 2) =>
        LET ef == EfEstabilidad(Column(df_mensual, "calculo_ngr"))
        IN /\ metricas.estabilidad = BandaEsperada(ef)
           /\ \A e \in EfMuestras :
                  /\ e <= ef => BandaEstabilidad(e) <= metricas.estabilidad
                  /\ e >= ef => BandaEstabilidad(e) >= metricas.estabilidad
           /\ \A b \in {400, 600, 800} :
                  BandaEstabilidad(b) - BandaEstabilidad(b - 1) \in 0..10

\* Two or more months whose ef falls in the band [0.4, 0.6).
C17_Witness ==
    /\ Calculado
    /\ Len(df_mensual) >= 2
    /\ metricas.estabilidad > 4000
    /\ metricas.estabilidad < 6000

\* Loyalty as the claim states it for a count of players of the agent (or
\* of the month) and the score the code gave it: bounded, 0 on an empty
\* platform, and ordered as the counts are against every other count.
FidelidadCorrecta(jugadores, total, valor, F(_, _)) ==
    /\ valor >= 0
    /\ valor <= 10000
    /\ total = 0 => valor = 0
    /\ (total > 0 /\ jugadores * 25 >= total) => valor = 10000
    /\ \A k \in 0..45 :
           /\ k <= jugadores => F(k, total) <= valor
           /\ k >= jugadores => F(k, total) >= valor

\* C18: the loyalty score is non-decreasing in the distinct player count
\* with the platform-wide count fixed, is 0 when the platform-wide count is
\* 0, and never exceeds 10, in the global and in the per-month computation.
C18_FidelidadMonotona ==
    (Calculado /\ Len(df_mensual) > 0) =>
        /\ FidelidadCorrecta(NUnique(DropNa(df_agent), "jugador_id"),
                             total_jugadores_global, metricas.fidelidad, Fidelidad)
        /\ \A i \in 1..Len(df_mensual) :
               FidelidadCorrecta(df_mensual[i].active_players, total_jugadores_global,
                                 df_mensual[i].fidelidad, FidelidadMes)

\* On a platform of 40 players, an agent whose three players reach the cap
\* while one month, with a single player, scores 6.25.
C18_Witness ==
    /\ Calculado
    /\ total_jugadores_global = 40
    /\ metricas.fidelidad = 10000
    /\ NUnique(DropNa(df_agent), "jugador_id") = 3
    /\ \E i \in 1..Len(df_mensual) : df_mensual[i].fidelidad = 6250

\* The calendar months in which the table has a record with a parseable
\* timestamp, and the records of one of them.
MesesParseables(df) == {df[i].creado.mes : i \in {j \in 1..Len(df) : df[j].creado.ok}}

RegistrosDelMes(df, m) == SelectSeq(df, LAMBDA r : r.creado.ok /\ r.creado.mes = m)

\* C19: the monthly aggregate has exactly one row for each calendar month
\* with at least one record with a parseable timestamp and no other row,
\* in strictly ascending order of month; each row sums the parseable
\* records of its month, so that a record with an unparseable timestamp
\* contributes to no row.
C19_FilasMensuales ==
    pc = "score" =>
        /\ {df_mensual[i].mes : i \in 1..Len(df_mensual)} = MesesParseables(df_agent)
        /\ Len(df_mensual) = Cardinality(MesesParseables(df_agent))
        /\ \A i \in 1..(Len(df_mensual) - 1) : df_mensual[i].mes < df_mensual[i + 1].mes
        /\ \A i \in 1..Len(df_mensual) :
               LET g == RegistrosDelMes(df_agent, df_mensual[i].mes)
               IN /\ df_mensual[i].calculo_ngr = SumSeq(Column(g, "calculo_ngr"))
                  /\ df_mensual[i].num_depositos = 12 * Len(g)

\* Records given out of order, in months 4 and 1 (none in 2 and 3), with an
\* unparseable record between them.
C19_Witness ==
    /\ pc = "score"
    /\ Len(df_agent) = 3
    /\ df_agent[1].creado.ok /\ df_agent[1].creado.mes = 4
    /\ ~df_agent[2].creado.ok
    /\ df_agent[3].creado.ok /\ df_agent[3].creado.mes = 1
    /\ Len(df_mensual) = 2

\* The players seen in calendar month m.
Cohorte(df, m) ==
    {x \in {df[i].jugador_id : i \in {j \in 1..Len(df) : df[j].creado.ok /\ df[j].creado.mes = m}}
       : ~IsNa(x)}

\* C20: every retention row is the rate |prev \cap curr| / |prev| x 100 of a
\* pair of consecutive observed months, lies in [0,100] (here in hundredths
\* of a percent) and is 0 when the previous month has no player; n observed
\* months give exactly n - 1 rows, a single month none.
C20_Retencion ==
    pc = "crecimiento" =>
        LET n == Cardinality(MesesParseables(df_agent))
        IN /\ Len(df_retencion) = IF n = 0 THEN 0 ELSE n - 1
           /\ \A k \in 1..Len(df_retencion) :
                  LET curr == df_retencion[k].mes
                      prev == CHOOSE m \in MesesParseables(df_agent) :
                                  /\ m < curr
                                  /\ \A o \in MesesParseables(df_agent) : o < curr => o <= m
                      tasa == df_retencion[k].tasa_retencion
                  IN /\ curr \in MesesParseables(df_agent)
                     /\ \E m \in MesesParseables(df_agent) : m < curr
                     /\ tasa >= 0
                     /\ tasa <= 10000
                     /\ Cohorte(df_agent, prev) = {} => tasa = 0
                     /\ Cardinality(Cohorte(df_agent, prev)) * tasa
                            <= 10000 * Cardinality(Cohorte(df_agent, prev) \cap Cohorte(df_agent, curr))
                     /\ Cardinality(Cohorte(df_agent, prev)) * (tasa + 1)
                            > 10000 * Cardinality(Cohorte(df_agent, prev) \cap Cohorte(df_agent, curr))
                            \/ Cohorte(df_agent, prev) = {}
           /\ \A k \in 1..(Len(df_retencion) - 1) : df_retencion[k].mes < df_retencion[k + 1].mes

\* Two players in month 1, one of them again in month 4: one row, at 50%.
C20_Witness ==
    /\ pc = "crecimiento"
    /\ Len(df_retencion) = 1
    /\ df_retencion[1].mes = 4
    /\ df_retencion[1].tasa_retencion = 5000

\* The players seen in a calendar month before m.
VistosAntes(df, m) == UNION {Cohorte(df, o) : o \in {x \in MesesParseables(df) : x < m}}

\* C21: in every organic-growth row new + returning <= total; new counts the
\* players of the month never seen in an earlier month (the historical set
\* before the month itself is added), returning those seen earlier but not
\* in the month just before; in the first observed month every player is
\* new and none is returning.
C21_Crecimiento ==
    pc = "registro" =>
        /\ Len(df_crecimiento) = Cardinality(MesesParseables(df_agent))
        /\ \A k \in 1..Len(df_crecimiento) :
               LET fila == df_crecimiento[k]
                   actuales == Cohorte(df_agent, fila.mes)
                   antes == VistosAntes(df_agent, fila.mes)
                   anteriores == {o \in MesesParseables(df_agent) : o < fila.mes}
                   previos == UNION {Cohorte(df_agent, o) :
                                  o \in {x \in anteriores : \A y \in anteriores : y <= x}}
               IN /\ fila.nuevos + fila.recurrentes <= fila.total
                  /\ fila.total = Cardinality(actuales)
                  /\ fila.nuevos = Cardinality(actuales \ antes)
                  /\ fila.recurrentes = Cardinality((actuales \cap antes) \ previos)
                  /\ anteriores = {} => fila.nuevos = fila.total /\ fila.recurrentes = 0

\* Player 1 in month 1, player 2 in month 2, player 1 again in month 4: the
\* third row has one returning player and no new one.
C21_Witness ==
    /\ pc = "registro"
    /\ Len(df_crecimiento) = 3
    /\ df_crecimiento[1].nuevos = 1 /\ df_crecimiento[1].total = 1
    /\ df_crecimiento[2].nuevos = 1
    /\ df_crecimiento[3].nuevos = 0 /\ df_crecimiento[3].recurrentes = 1


\* A profile record without the name of its agent.
SinNombre(r) == [k \in DOMAIN r \ {"nombre_usuario_agente"} |-> r[k]]

C23_RankGlobal ==
    pc = "hecho" =>
        /\ Len(df_agents) = Len(agent_records)
        /\ \A i \in 1..Len(df_agents) :
               df_agents[i].rank_global =
                   1 + Cardinality({j \in 1..Len(df_agents) :
                                       df_agents[j].score_global > df_agents[i].score_global})
        /\ Len(df_agents) > 0 => \E i \in 1..Len(df_agents) : df_agents[i].rank_global = 1
        /\ \A i, j \in 1..Len(df_agents) :
               df_agents[i].score_global > df_agents[j].score_global
               => df_agents[i].rank_global <= df_agents[j].rank_global

\* Scores 4.5, 8.5, 0, 8.5: ranks 3, 1, 4, 1.
C23_Witness ==
    /\ pc = "hecho"
    /\ Len(df_agents) = 4
    /\ df_agents[1].score_global = 450000 /\ df_agents[1].rank_global = 3
    /\ df_agents[2].score_global = 850000 /\ df_agents[2].rank_global = 1
    /\ df_agents[3].score_global = 0 /\ df_agents[3].rank_global = 4
    /\ df_agents[4].score_global = 850000 /\ df_agents[4].rank_global = 1


\* C24: run_server tries the ports in ascending order from 8080, one after
\* the other; it tries the next port only after the bind on the one before
\* failed; it never tries a port above 8090; it serves on the first port
\* whose bind succeeds, and gives up after exactly 11 failed attempts.
C24_Puertos ==
    /\ Len(intentados) <= 11
    /\ \A k \in 1..Len(intentados) : intentados[k] = PORT + k - 1 /\ intentados[k] <= 8090
    /\ \A k \in 1..(Len(intentados) - 1) : intentados[k] \in puertos_ocupados
    /\ pc = "bind" => port = PORT + Len(intentados) /\ port <= 8090
    /\ pc = "serve_forever" =>
           /\ Len(intentados) >= 1
           /\ port = intentados[Len(intentados)]
           /\ port \notin puertos_ocupados
    /\ pc = "sin_puertos" =>
           /\ Len(intentados) = 11
           /\ \A k \in 1..11 : intentados[k] \in puertos_ocupados

\* Ports 8080 to 8090 are taken and 8091 is free: the run ends without a
\* server after the attempt on 8090.
C24_Witness ==
    /\ pc = "sin_puertos"
    /\ 8091 \notin puertos_ocupados
    /\ Len(intentados) = 11
    /\ intentados[11] = 8090


\* Deposit counts that give val = 0, 1, ..., 100 with a GGR of ggr.
DepositosDeVal(ggr) == {(v * ggr) \div 100 : v \in 0..100}

\* C25: for a positive GGR the casino and sportsbook efficiency scores,
\* global and per month, never rise when val = deposit count / GGR x 100
\* rises: a deposit count at or above the one observed scores no higher.
C25_EficienciaMonotona ==
    Calculado =>
        /\ Len(df_mensual) > 0 =>
               LET n == SumSeq(Column(df_mensual, "num_depositos"))
                   c == SumSeq(Column(df_mensual, "casino_ggr"))
                   d == SumSeq(Column(df_mensual, "apuestas_deportivas_ggr"))
               IN /\ c > 0 => \A n2 \in DepositosDeVal(c) :
                         n2 >= n => EficienciaCasino(n2, c) <= metricas.eficiencia_casino
                  /\ d > 0 => \A n2 \in DepositosDeVal(d) :
                         n2 >= n => EficienciaDeportes(n2, d) <= metricas.eficiencia_deportes
        /\ \A i \in 1..Len(df_mensual) :
               LET n == df_mensual[i].num_depositos
                   c == df_mensual[i].casino_ggr
                   d == df_mensual[i].apuestas_deportivas_ggr
               IN /\ c > 0 => \A n2 \in DepositosDeVal(c) :
                         n2 >= n => EficienciaCasinoMes(n2, c) <= df_mensual[i].eficiencia_casino
                  /\ d > 0 => \A n2 \in DepositosDeVal(d) :
                         n2 >= n => EficienciaDeportesMes(n2, d) <= df_mensual[i].eficiencia_deportes

\* GGR totals that give val = 0, 1, ..., 20 with deposits of depositos.
GgrDeVal(depositos) == {(v * depositos) \div 100 : v \in 0..20}

\* C26: for positive deposits the conversion score, global and per month,
\* never falls when val = total GGR / deposits x 100 rises: a GGR at or
\* below the one observed scores no higher.
C26_ConversionMonotona ==
    Calculado =>
        /\ Len(df_mensual) > 0 =>
               LET g == SumSeq(Column(df_mensual, "apuestas_deportivas_ggr"))
                        + SumSeq(Column(df_mensual, "casino_ggr"))
                   t == SumSeq(Column(df_mensual, "total_depositos"))
               IN t > 0 => \A g1 \in GgrDeVal(t) :
                      g1 <= g => Conversion(g1, t) <= metricas.eficiencia_conversion
        /\ \A i \in 1..Len(df_mensual) :
               LET g == df_mensual[i].apuestas_deportivas_ggr + df_mensual[i].casino_ggr
                   t == df_mensual[i].total_depositos
               IN t > 0 => \A g1 \in GgrDeVal(t) :
                      g1 <= g => ConversionMes(g1, t) <= df_mensual[i].eficiencia_conversion


C28_TopeInactivo ==
    (pc = "prediccion" /\ score >= 0 /\ score <= 1000000
        /\ metricas.estabilidad >= 0 /\ metricas.estabilidad <= 10000) =>
        /\ credito >= 0
        /\ "p25" \in DOMAIN detalles =>
               LET n == Len(ValidosDe(df_mensual))
                   producto == ProductoEsperado(detalles)
               IN /\ detalles.f_score >= 50000
                  /\ detalles.f_score <= 100000
                  /\ producto <= TopeEsperado(df_mensual, detalles)
                  /\ credito = IF detalles.p25 < 400 THEN 0
                               ELSE Round2(IF n < 3 THEN producto \div 2 ELSE producto)

\* The top score and stability, three positive months with p25 >= 100, a
\* rising trend and a positive credit.
C28_Witness ==
    /\ ConFactores
    /\ score = 1000000
    /\ metricas.estabilidad = 10000
    /\ detalles.f_score = 100000
    /\ detalles.p25 >= 400
    /\ detalles.f_tendencia = 115
    /\ Len(ValidosDe(df_mensual)) = 3
    /\ credito > 0


\* The monthly GGR values predecir_ggr uses: the last three, two or one.
GgrUsados(mensual) ==
    {GgrMes(mensual[i]) : i \in Max(1, Len(mensual) - 2)..Len(mensual)}

\* C29 as amended: for a non-empty series the weighted mean of the monthly
\* GGR values used lies between their minimum and their maximum and is the
\* constant for a constant series; the double returned is that mean up to
\* the rounding of binary64, from which it differs by no more than 2^-50
\* times the largest magnitude used (320 x 2^-55 tenths per unit), and by
\* nothing with a single month.
C29_HastaElRedondeo ==
    (pc = "retencion" /\ Len(df_mensual) > 0) =>
        LET usados == GgrUsados(df_mensual)
            menor == CHOOSE x \in usados : \A y \in usados : x <= y
            mayor == CHOOSE x \in usados : \A y \in usados : y <= x
        IN /\ ggr_prediccion >= 10 * menor
           /\ ggr_prediccion <= 10 * mayor
           /\ menor = mayor => ggr_prediccion = 10 * menor
           /\ Abs(ggr_redondeo) <= 320 * Max(Abs(menor), Abs(mayor))
           /\ Len(df_mensual) = 1 => ggr_redondeo = 0

\* Three months of 31 each: the double returned is 31 - 2^-48.
C29_Witness ==
    /\ pc = "retencion"
    /\ Len(df_mensual) = 3
    /\ \A i \in 1..3 : GgrMes(df_mensual[i]) = 31
    /\ ggr_prediccion = 310
    /\ ggr_redondeo = -1280

\* C29: for a non-empty series the forecast lies between the minimum and the
\* maximum of the monthly GGR values it uses (the last three, two or one),
\* and the forecast of a series whose used values are all equal is that
\* value.  The forecast is the double
\* (ggr_prediccion + ggr_redondeo x 2^-55) / 10, with |ggr_redondeo| < 2^55.
C29_EntreMinimoYMaximo ==
    (pc = "retencion" /\ Len(df_mensual) > 0) =>
        LET usados == GgrUsados(df_mensual)
            menor == CHOOSE x \in usados : \A y \in usados : x <= y
            mayor == CHOOSE x \in usados : \A y \in usados : y <= x
        IN /\ \/ ggr_prediccion > 10 * menor
              \/ ggr_prediccion = 10 * menor /\ ggr_redondeo >= 0
           /\ \/ ggr_prediccion < 10 * mayor
              \/ ggr_prediccion = 10 * mayor /\ ggr_redondeo <= 0
           /\ menor = mayor => ggr_prediccion = 10 * menor /\ ggr_redondeo = 0


\* The labels in the order in which a report may meet them: the label of
\* the agent first, then the others from the bottom of the ladder up.
ClasesDelReporte(label) ==
    LET otras == SelectSeq(Etiquetas, LAMBDA e : e # label)
    IN <<label>> \o [i \in 1..Len(otras) |-> otras[Len(otras) + 1 - i]]

\* C30: the class order of the dashboard agrees with the classifier ladder:
\* of two scores with different labels the higher has the label of strictly
\* smaller sort_key_clase, and sorting the ten labels by sort_key_clase
\* gives A+++, A++, A+, B+++, B++, B+, C+++, C++, C+, C.
C30_OrdenDeClases ==
    pc = "credito" =>
        /\ \A s1 \in ScoreDominio :
               LET otra == categorizar_agente(s1)[1]
               IN otra # categoria[1] =>
                      (s1 > score <=> sort_key_clase(otra) < sort_key_clase(categoria[1]))
        /\ SortClases(ClasesDelReporte(categoria[1])) = Etiquetas

\* A score just under 4.5 has been classified C+++, of key 297, and the
\* report meets C+++ first and A+++ last.
C30_Witness ==
    /\ pc = "credito"
    /\ score = 449999
    /\ categoria[1] = <<"C", "+", "+", "+">>
    /\ sort_key_clase(categoria[1]) = 297
    /\ ClasesDelReporte(categoria[1])[10] = <<"A", "+", "+", "+">>


=============================================================================
